---- MODULE Spec2Model ----
(***************************************************************************)
(* sogni-gen: resolution of a command line, the plugin configuration and   *)
(* the last-render record into a generation request (src/sogni-gen.mjs,    *)
(* lines 1-876).                                                           *)
(*                                                                         *)
(* Representation.  A JavaScript string is a sequence of one-character     *)
(* strings, so that toLowerCase, includes, parseInt and JSON.stringify are *)
(* computed character by character.  A JavaScript value is a record        *)
(* [t, n, s]: t is its type tag, n the number (t = "num"), s the string    *)
(* (t = "str").  The tag "absent" marks a command-line flag that was not   *)
(* given at all; "undef" is JavaScript's undefined (a flag given as the    *)
(* last word, whose value args[++i] is undefined).                         *)
(***************************************************************************)
EXTENDS Integers, Sequences, FiniteSets, TLC

Undef == [t |-> "undef", n |-> 0, s |-> <<>>]
Null == [t |-> "null", n |-> 0, s |-> <<>>]
NaN == [t |-> "nan", n |-> 0, s |-> <<>>]
Absent == [t |-> "absent", n |-> 0, s |-> <<>>]
Num(n) == [t |-> "num", n |-> n, s |-> <<>>]
Str(s) == [t |-> "str", n |-> 0, s |-> s]

\* JavaScript truthiness: 0, NaN, '', null and undefined are falsy.
Truthy(v) == (v.t = "num" /\ v.n # 0) \/ (v.t = "str" /\ v.s # <<>>)
\* v === null || v === undefined
Nullish(v) == v.t \in {"null", "undef"}
\* a || b
Or(a, b) == IF Truthy(a) THEN a ELSE b
\* a ?? b
Coalesce(a, b) == IF Nullish(a) THEN b ELSE a
\* A variant of isNumber that takes any value for a finite number.
isNumberAnyValue(v) == TRUE
\* Number.isFinite(value): a number that is not NaN (no Infinity arises here).
isNumber(v) == v.t = "num"

(***************************************************************************)
(* String literals of the program.                                         *)
(***************************************************************************)
\* 't2v'
s_t2v == <<"t", "2", "v">>
\* 'i2v'
s_i2v == <<"i", "2", "v">>
\* 's2v'
s_s2v == <<"s", "2", "v">>
\* 'animate-move'
s_animate_move == <<"a", "n", "i", "m", "a", "t", "e", "-", "m", "o", "v", "e">>
\* 'animate-replace'
s_animate_replace == <<"a", "n", "i", "m", "a", "t", "e", "-", "r", "e", "p", "l", "a",
    "c", "e">>
\* 'text-to-video'
s_text_to_video == <<"t", "e", "x", "t", "-", "t", "o", "-", "v", "i", "d", "e", "o">>
\* 'image-to-video'
s_image_to_video == <<"i", "m", "a", "g", "e", "-", "t", "o", "-", "v", "i", "d", "e",
    "o">>
\* 'sound-to-video'
s_sound_to_video == <<"s", "o", "u", "n", "d", "-", "t", "o", "-", "v", "i", "d", "e",
    "o">>
\* 'animate_move'
s_animate_move_us == <<"a", "n", "i", "m", "a", "t", "e", "_", "m", "o", "v", "e">>
\* 'animate_replace'
s_animate_replace_us == <<"a", "n", "i", "m", "a", "t", "e", "_", "r", "e", "p", "l", "a",
    "c", "e">>
\* '_t2v'
s_us_t2v == <<"_", "t", "2", "v">>
\* '-t2v'
s_da_t2v == <<"-", "t", "2", "v">>
\* '_i2v'
s_us_i2v == <<"_", "i", "2", "v">>
\* '-i2v'
s_da_i2v == <<"-", "i", "2", "v">>
\* '_s2v'
s_us_s2v == <<"_", "s", "2", "v">>
\* '-s2v'
s_da_s2v == <<"-", "s", "2", "v">>
\* 'image'
s_image == <<"i", "m", "a", "g", "e">>
\* 'spark'
s_spark == <<"s", "p", "a", "r", "k">>
\* 'sogni'
s_sogni == <<"s", "o", "g", "n", "i">>
\* 'random'
s_random == <<"r", "a", "n", "d", "o", "m">>
\* 'prompt-hash'
s_prompt_hash == <<"p", "r", "o", "m", "p", "t", "-", "h", "a", "s", "h">>
\* 'prompt_hash'
s_prompt_hash_us == <<"p", "r", "o", "m", "p", "t", "_", "h", "a", "s", "h">>
\* 'lightning'
s_lightning == <<"l", "i", "g", "h", "t", "n", "i", "n", "g">>
\* 'wan_v2.2-14b-fp8_t2v_lightx2v'
m_t2v_lightx2v == <<"w", "a", "n", "_", "v", "2", ".", "2", "-", "1", "4", "b", "-", "f",
    "p", "8", "_", "t", "2", "v", "_", "l", "i", "g", "h", "t", "x", "2", "v">>
\* 'wan_v2.2-14b-fp8_i2v_lightx2v'
m_i2v_lightx2v == <<"w", "a", "n", "_", "v", "2", ".", "2", "-", "1", "4", "b", "-", "f",
    "p", "8", "_", "i", "2", "v", "_", "l", "i", "g", "h", "t", "x", "2", "v">>
\* 'wan_v2.2-14b-fp8_s2v_lightx2v'
m_s2v_lightx2v == <<"w", "a", "n", "_", "v", "2", ".", "2", "-", "1", "4", "b", "-", "f",
    "p", "8", "_", "s", "2", "v", "_", "l", "i", "g", "h", "t", "x", "2", "v">>
\* 'wan_v2.2-14b-fp8_animate-move_lightx2v'
m_animate_move_lightx2v == <<"w", "a", "n", "_", "v", "2", ".", "2", "-", "1", "4", "b",
    "-", "f", "p", "8", "_", "a", "n", "i", "m", "a", "t", "e", "-", "m", "o", "v", "e",
    "_", "l", "i", "g", "h", "t", "x", "2", "v">>
\* 'wan_v2.2-14b-fp8_animate-replace_lightx2v'
m_animate_replace_lightx2v == <<"w", "a", "n", "_", "v", "2", ".", "2", "-", "1", "4", "b",
    "-", "f", "p", "8", "_", "a", "n", "i", "m", "a", "t", "e", "-", "r", "e", "p", "l",
    "a", "c", "e", "_", "l", "i", "g", "h", "t", "x", "2", "v">>
\* 'qwen_image_edit_2511_fp8_lightning'
m_qwen_edit_lightning == <<"q", "w", "e", "n", "_", "i", "m", "a", "g", "e", "_", "e", "d",
    "i", "t", "_", "2", "5", "1", "1", "_", "f", "p", "8", "_", "l", "i", "g", "h", "t",
    "n", "i", "n", "g">>
\* 'z_image_turbo_bf16'
m_z_image_turbo == <<"z", "_", "i", "m", "a", "g", "e", "_", "t", "u", "r", "b", "o", "_",
    "b", "f", "1", "6">>

(***************************************************************************)
(* String functions.                                                       *)
(***************************************************************************)
UpperChars == <<"A", "B", "C", "D", "E", "F", "G", "H", "I", "J", "K", "L", "M",
    "N", "O", "P", "Q", "R", "S", "T", "U", "V", "W", "X", "Y", "Z">>
LowerChars == <<"a", "b", "c", "d", "e", "f", "g", "h", "i", "j", "k", "l", "m",
    "n", "o", "p", "q", "r", "s", "t", "u", "v", "w", "x", "y", "z">>
LowerChar(c) ==
    IF \E i \in 1..Len(UpperChars) : UpperChars[i] = c
    THEN LowerChars[CHOOSE i \in 1..Len(UpperChars) : UpperChars[i] = c]
    ELSE c
toLowerCase(s) == [i \in 1..Len(s) |-> LowerChar(s[i])]
includes(s, sub) ==
    \E i \in 0..(Len(s) - Len(sub)) : SubSeq(s, i + 1, i + Len(sub)) = sub

Digits == <<"0", "1", "2", "3", "4", "5", "6", "7", "8", "9">>
IsDigit(c) == \E i \in 1..Len(Digits) : Digits[i] = c
DigitVal(c) == (CHOOSE i \in 1..Len(Digits) : Digits[i] = c) - 1
RECURSIVE ParseDigits(_, _, _)
ParseDigits(s, i, acc) ==
    IF i > Len(s) \/ ~IsDigit(s[i]) THEN acc
    ELSE ParseDigits(s, i + 1, acc * 10 + DigitVal(s[i]))
\* parseInt(tok): an optional sign, then the longest prefix of decimal digits;
\* NaN when there is none, and for undefined.
parseInt(tok) ==
    IF tok.t # "str" THEN NaN
    ELSE LET s == tok.s
             signed == Len(s) > 0 /\ s[1] \in {"-", "+"}
             start == IF signed THEN 2 ELSE 1
         IN IF start > Len(s) \/ ~IsDigit(s[start]) THEN NaN
            ELSE IF signed /\ s[1] = "-" THEN Num(0 - ParseDigits(s, start, 0))
            ELSE Num(ParseDigits(s, start, 0))
\* 'wan_v2.2-14b-fp8_i2v'
m_i2v_quality == <<"w", "a", "n", "_", "v", "2", ".", "2", "-", "1", "4", "b", "-", "f",
    "p", "8", "_", "i", "2", "v">>
\* 'qwen_image_edit_2511_fp8'
m_qwen_edit == <<"q", "w", "e", "n", "_", "i", "m", "a", "g", "e", "_", "e", "d", "i", "t",
    "_", "2", "5", "1", "1", "_", "f", "p", "8">>
\* 'flux1-schnell-fp8'
m_flux_schnell == <<"f", "l", "u", "x", "1", "-", "s", "c", "h", "n", "e", "l", "l", "-",
    "f", "p", "8">>

(***************************************************************************)
(* Words of the command lines, configurations and records explored.        *)
(***************************************************************************)
t_cat == <<"a", " ", "c", "a", "t">>
t_dog == <<"a", " ", "d", "o", "g">>
t_500 == <<"5", "0", "0">>
t_640 == <<"6", "4", "0">>
t_768 == <<"7", "6", "8">>
t_2 == <<"2">>
t_24 == <<"2", "4">>
t_3 == <<"3">>
t_48 == <<"4", "8">>
t_30 == <<"3", "0">>
t_0 == <<"0">>
t_42 == <<"4", "2">>
t_neg5 == <<"-", "5">>
t_abc == <<"a", "b", "c">>
t_70000 == <<"7", "0", "0", "0", "0">>
t_Spark == <<"S", "p", "a", "r", "k">>
t_PROMPT_HASH == <<"P", "R", "O", "M", "P", "T", "_", "H", "A", "S", "H">>
t_I2V == <<"I", "2", "V">>
t_bogus == <<"b", "o", "g", "u", "s">>
t_custom_model == <<"m", "y", "-", "f", "i", "n", "e", "t", "u", "n", "e">>
t_a_jpg == <<"a", ".", "j", "p", "g">>
t_e_jpg == <<"e", ".", "j", "p", "g">>
t_s_m4a == <<"s", ".", "m", "4", "a">>
t_m_mp4 == <<"m", ".", "m", "p", "4">>
t_balance == <<"-", "-", "b", "a", "l", "a", "n", "c", "e">>
t_gold == <<"g", "o", "l", "d">>
t_2_5 == <<"2", ".", "5">>
t_c_png == <<"c", ".", "p", "n", "g">>
t_out_png == <<"o", "u", "t", ".", "p", "n", "g">>
t_last_png == <<"l", "a", "s", "t", ".", "p", "n", "g">>
t_last_url == <<"h", "t", "t", "p", "s", ":", "/", "/", "c", "d", "n", "/", "l", "a", "s",
    "t", ".", "p", "n", "g">>

\* The printable ASCII characters in code order: from the space (code 32) to
\* the underscore (95), and from "a" (97) to the tilde (126).
Ascii32 == <<" ", "!", "\"", "#", "$", "%", "&", "'", "(", ")", "*", "+", ",", "-",
    ".", "/", "0", "1", "2", "3", "4", "5", "6", "7", "8", "9", ":", ";", "<", "=",
    ">", "?", "@", "A", "B", "C", "D", "E", "F", "G", "H", "I", "J", "K", "L", "M",
    "N", "O", "P", "Q", "R", "S", "T", "U", "V", "W", "X", "Y", "Z", "[", "\\", "]",
    "^", "_">>
Ascii97 == <<"a", "b", "c", "d", "e", "f", "g", "h", "i", "j", "k", "l", "m", "n",
    "o", "p", "q", "r", "s", "t", "u", "v", "w", "x", "y", "z", "{", "|", "}", "~">>
CharCode(c) ==
    IF \E i \in 1..Len(Ascii32) : Ascii32[i] = c
    THEN (CHOOSE i \in 1..Len(Ascii32) : Ascii32[i] = c) + 31
    ELSE (CHOOSE i \in 1..Len(Ascii97) : Ascii97[i] = c) + 96

RECURSIVE NatToChars(_)
NatToChars(n) ==
    IF n < 10 THEN <<Digits[n + 1]>>
    ELSE NatToChars(n \div 10) \o <<Digits[(n % 10) + 1]>>
\* JSON.stringify of one value: a string in quotes, a number in decimal, and
\* null for NaN, null and (inside an array) undefined.
jsonValue(v) ==
    CASE v.t = "str" -> <<"\"">> \o v.s \o <<"\"">>
      [] v.t = "num" -> IF v.n < 0 THEN <<"-">> \o NatToChars(0 - v.n)
                        ELSE NatToChars(v.n)
      [] OTHER -> <<"n", "u", "l", "l">>
RECURSIVE jsonList(_)
jsonList(xs) ==
    IF xs = <<>> THEN <<>>
    ELSE IF Len(xs) = 1 THEN jsonValue(xs[1])
    ELSE jsonValue(xs[1]) \o <<",">> \o jsonList(Tail(xs))
jsonArray(xs) == <<"[">> \o jsonList(xs) \o <<"]">>

(***************************************************************************)
(* Seeds.  readUInt32BE yields an unsigned integer of 32 bits.  TLC's      *)
(* integers are signed 32-bit, so the model carries a seed in SeedBits     *)
(* bits: every seed the program derives lies in 0..MaxSeed, and MaxSeed+1  *)
(* stands for a number too large for a seed.                               *)
(***************************************************************************)
SeedBits == 16
MaxSeed == (2 ^ SeedBits) - 1

\* createHash('sha256').update(text).digest().readUInt32BE(0).  SHA-256 is
\* not computed: a position-weighted sum of the text's character codes stands
\* for it, with the same signature (text in, unsigned integer of the seed's
\* width out), deterministic and sensitive to the order of the characters.
RECURSIVE digestRange(_, _, _)
digestRange(text, lo, hi) ==
    IF lo > hi THEN 0
    ELSE IF lo = hi
    THEN (CharCode(text[lo]) * (((lo * lo) * 31 + lo * 7 + 1) % (MaxSeed + 1)))
            % (MaxSeed + 1)
    ELSE LET mid == (lo + hi) \div 2 IN
         (digestRange(text, lo, mid) + digestRange(text, mid + 1, hi)) % (MaxSeed + 1)
readUInt32BE(text) == digestRange(text, 1, Len(text))

(***************************************************************************)
(* The program's pure functions (lines 16-91).                             *)
(***************************************************************************)
WorkflowNames == {s_t2v, s_i2v, s_s2v, s_animate_move, s_animate_replace}

VIDEO_WORKFLOW_DEFAULT_MODELS(workflow) ==
    CASE workflow = Str(s_t2v) -> Str(m_t2v_lightx2v)
      [] workflow = Str(s_i2v) -> Str(m_i2v_lightx2v)
      [] workflow = Str(s_s2v) -> Str(m_s2v_lightx2v)
      [] workflow = Str(s_animate_move) -> Str(m_animate_move_lightx2v)
      [] workflow = Str(s_animate_replace) -> Str(m_animate_replace_lightx2v)
      [] OTHER -> Undef

normalizeVideoWorkflow(value) ==
    IF ~Truthy(value) THEN Null
    ELSE LET normalized == toLowerCase(value.s) IN
         IF normalized = s_t2v \/ normalized = s_text_to_video THEN Str(s_t2v)
         ELSE IF normalized = s_i2v \/ normalized = s_image_to_video THEN Str(s_i2v)
         ELSE IF normalized = s_s2v \/ normalized = s_sound_to_video THEN Str(s_s2v)
         ELSE IF normalized = s_animate_move \/ normalized = s_animate_move_us
              THEN Str(s_animate_move)
         ELSE IF normalized = s_animate_replace \/ normalized = s_animate_replace_us
              THEN Str(s_animate_replace)
         ELSE Null

inferVideoWorkflowFromModel(modelId) ==
    IF ~Truthy(modelId) THEN Null
    ELSE LET id == toLowerCase(modelId.s) IN
         IF includes(id, s_animate_move) THEN Str(s_animate_move)
         ELSE IF includes(id, s_animate_replace) THEN Str(s_animate_replace)
         ELSE IF includes(id, s_us_t2v) \/ includes(id, s_da_t2v) THEN Str(s_t2v)
         ELSE IF includes(id, s_us_i2v) \/ includes(id, s_da_i2v) THEN Str(s_i2v)
         ELSE IF includes(id, s_us_s2v) \/ includes(id, s_da_s2v) THEN Str(s_s2v)
         ELSE Null

inferVideoWorkflowFromAssets(opts) ==
    IF Truthy(opts.refVideo) THEN Str(s_animate_move)
    ELSE IF Truthy(opts.refAudio) THEN Str(s_s2v)
    ELSE IF Truthy(opts.refImage) \/ Truthy(opts.refImageEnd) THEN Str(s_i2v)
    ELSE Null

workflowRequiresImage(workflow) ==
    \/ workflow = Str(s_i2v)
    \/ workflow = Str(s_s2v)
    \/ workflow = Str(s_animate_move)
    \/ workflow = Str(s_animate_replace)

normalizeSeedStrategy(value) ==
    IF ~Truthy(value) THEN Null
    ELSE LET normalized == toLowerCase(value.s) IN
         IF normalized = s_random THEN Str(s_random)
         ELSE IF normalized = s_prompt_hash \/ normalized = s_prompt_hash_us
              THEN Str(s_prompt_hash)
         ELSE Null

\* randomBytes(4).readUInt32BE(0): any unsigned integer of the seed's width.
\* The model draws it from the two ends of the range and one inner value.
RandomInner == 4242
generateRandomSeed == {0, RandomInner, MaxSeed}

\* The payload of computePromptHashSeed, in the order of its keys.  The key
\* names, equal in every payload, are left out of the text.
hashPayload(opts) ==
    <<Or(opts.prompt, Str(<<>>)),
      Or(opts.model, Str(<<>>)),
      IF opts.video THEN opts.videoWorkflow ELSE Str(s_image),
      opts.width,
      opts.height,
      Or(opts.refImage, Str(<<>>)),
      Or(opts.refImageEnd, Str(<<>>)),
      Or(opts.refAudio, Str(<<>>)),
      Or(opts.refVideo, Str(<<>>))>>
\* A variant of computePromptHashSeed that also mixes the count into the seed.
computePromptHashSeedWithCount(opts) ==
    (readUInt32BE(jsonList(hashPayload(opts)) \o <<",">> \o jsonArray(opts.contextImages))
        + opts.count.n) % (MaxSeed + 1)
computePromptHashSeed(opts) ==
    readUInt32BE(jsonList(hashPayload(opts)) \o <<",">> \o jsonArray(opts.contextImages))

\* A JavaScript object used as a map is a set of <<key, value>> pairs with one
\* pair a key; map[key] is undefined for a missing key.
Lookup(map, key) ==
    IF \E p \in map : p[1] = key THEN (CHOOSE p \in map : p[1] = key)[2] ELSE Undef
NoDefaults == [steps |-> Undef, guidance |-> Undef]
\* getModelDefaults returns the entry or null; its callers read
\* modelDefaults?.steps and modelDefaults?.guidance, undefined for null.
getModelDefaults(modelId, config) ==
    IF ~Truthy(modelId) THEN NoDefaults
    ELSE IF \E p \in config.modelDefaults : p[1] = modelId.s
         THEN (CHOOSE p \in config.modelDefaults : p[1] = modelId.s)[2]
         ELSE NoDefaults

\* getMaxContextImages of the client wrapper library (imported at line 7): the
\* editing models take up to three context images (help text, line 302), the
\* other models none.
s_qwen_image_edit == <<"q", "w", "e", "n", "_", "i", "m", "a", "g", "e", "_", "e",
    "d", "i", "t">>
QwenMaxContextImages == 3
getMaxContextImages(modelId) ==
    IF includes(modelId.s, s_qwen_image_edit) THEN QwenMaxContextImages ELSE 0

(***************************************************************************)
(* State.                                                                  *)
(***************************************************************************)
VARIABLES
    slice,              \* which part of the input space this behaviour explores
    cfg,                \* openclawConfig, what loadOpenClawPluginConfig returned
    lastRender,         \* the file at LAST_RENDER_PATH
    argv,               \* process.argv.slice(2), flag by flag
    options,            \* the options record
    cliSet,             \* the cliSet record
    timeoutFromConfig,
    pc,                 \* the next block of the script to run
    exitCode,           \* the process exit code, -1 while the process runs
    err,                \* why the process left: the message printed, by name
    request,            \* the project configuration handed to the client
    hashObs,            \* this run's prompt-hash derivation: options and seed
    prevObs,            \* the latest prompt-hash derivation of an earlier run
    connected,          \* client.connect() has been called
    completedJobs,      \* the JOB_COMPLETED events counted by main
    stdout,             \* what the process wrote to its standard output
    renderInfo,         \* the record main handed to saveLastRender
    results,            \* the length of main's results array
    completion,         \* completionPromise: pending, resolved, or why it rejected
    lastRenderWrites    \* the writes of the file at LAST_RENDER_PATH by this run

vars == <<slice, cfg, lastRender, argv, options, cliSet, timeoutFromConfig, pc,
    exitCode, err, request, hashObs, prevObs, connected, completedJobs, stdout,
    renderInfo, results, completion, lastRenderWrites>>

\* const options = {...} (lines 113-139); lastImagePath is options._lastImagePath.
InitialOptions ==
    [prompt |-> Null, output |-> Null, model |-> Null,
     width |-> Num(512), height |-> Num(512), count |-> Num(1),
     json |-> FALSE, quiet |-> FALSE, timeout |-> Num(30000),
     tokenType |-> Null, steps |-> Null, guidance |-> Null, seed |-> Null,
     lastSeed |-> FALSE, seedStrategy |-> Null, video |-> FALSE,
     videoWorkflow |-> Null, fps |-> Num(16), duration |-> Num(5), frames |-> Null,
     refImage |-> Null, refImageEnd |-> Null, refAudio |-> Null, refVideo |-> Null,
     contextImages |-> <<>>, lastImagePath |-> Undef]

\* const cliSet = {...} (lines 140-162).
InitialCliSet ==
    [output |-> FALSE, model |-> FALSE, width |-> FALSE, height |-> FALSE,
     count |-> FALSE, timeout |-> FALSE, tokenType |-> FALSE, steps |-> FALSE,
     guidance |-> FALSE, seed |-> FALSE, seedStrategy |-> FALSE, video |-> FALSE,
     workflow |-> FALSE, fps |-> FALSE, duration |-> FALSE, frames |-> FALSE,
     refImage |-> FALSE, refImageEnd |-> FALSE, refAudio |-> FALSE,
     refVideo |-> FALSE, context |-> FALSE]

NoRequest ==
    [kind |-> "none", modelId |-> Undef, positivePrompt |-> Undef,
     numberOfMedia |-> Undef, referenceImage |-> Undef, referenceImageEnd |-> Undef,
     referenceAudio |-> Undef, referenceVideo |-> Undef, contextImages |-> <<>>,
     fps |-> Undef, width |-> Undef, height |-> Undef, tokenType |-> Undef,
     frames |-> Undef, duration |-> Undef, seed |-> Undef, steps |-> Undef,
     guidance |-> Undef, sizePreset |-> Undef]

\* Nothing written to the standard output; console.error writes elsewhere.
NoOutput == [kind |-> "none", success |-> FALSE, keys |-> {}, prompt |-> Undef]

\* No record handed to saveLastRender.
NoRenderInfo ==
    [type |-> "none", model |-> Undef, seed |-> Undef, workflow |-> Undef,
     refImage |-> Undef, refImageEnd |-> Undef, refAudio |-> Undef,
     refVideo |-> Undef, contextImages |-> <<>>, localPath |-> Undef,
     url0 |-> Undef]

NoObs == [made |-> FALSE, opts |-> InitialOptions, seed |-> 0]

\* process.exit(code), or the end of the process on an uncaught exception.
Exit(code, why) ==
    /\ pc' = "exit"
    /\ exitCode' = code
    /\ err' = why

(***************************************************************************)
(* Inputs.  The command line is a record of its flags: Absent for a flag   *)
(* that is not given, else the word that follows it (Undef when the flag   *)
(* is the last word).  The input space is explored in slices: each slice   *)
(* varies the flags, the configuration keys and the record fields one      *)
(* group of operations reads and leaves the others at the value below.     *)
(***************************************************************************)
BaseArgv ==
    [info |-> "none", output |-> Absent, model |-> Absent, width |-> Absent,
     height |-> Absent, count |-> Absent, timeout |-> Absent, tokenType |-> Absent,
     steps |-> Absent, guidance |-> Absent, seed |-> Absent, seedStrategy |-> Absent,
     lastSeed |-> FALSE, video |-> FALSE, workflow |-> Absent, fps |-> Absent,
     duration |-> Absent, frames |-> Absent, ref |-> Absent, refEnd |-> Absent,
     refAudio |-> Absent, refVideo |-> Absent, context |-> <<>>, lastImage |-> FALSE,
     json |-> FALSE, quiet |-> FALSE, other |-> Absent, prompt |-> Str(t_cat)]

\* loadOpenClawPluginConfig returned null: every openclawConfig?.key is undefined.
NoConfig ==
    [present |-> FALSE, defaultWidth |-> Undef, defaultHeight |-> Undef,
     defaultCount |-> Undef, defaultTokenType |-> Undef, seedStrategy |-> Undef,
     defaultVideoWorkflow |-> Undef, defaultFps |-> Undef,
     defaultDurationSec |-> Undef, defaultVideoTimeoutSec |-> Undef,
     defaultImageTimeoutSec |-> Undef, videoModels |-> {}, defaultEditModel |-> Undef,
     defaultImageModel |-> Undef, defaultNetwork |-> Undef, modelDefaults |-> {}]
EmptyConfig == [NoConfig EXCEPT !.present = TRUE]
\* A configuration that sets every key the merge reads.
FullConfig ==
    [present |-> TRUE, defaultWidth |-> Num(1024), defaultHeight |-> Num(576),
     defaultCount |-> Num(4), defaultTokenType |-> Str(s_sogni),
     seedStrategy |-> Str(s_random), defaultVideoWorkflow |-> Str(s_image_to_video),
     defaultFps |-> Num(12), defaultDurationSec |-> Num(10),
     defaultVideoTimeoutSec |-> Num(120), defaultImageTimeoutSec |-> Num(45),
     videoModels |-> {<<s_i2v, Str(m_i2v_quality)>>},
     defaultEditModel |-> Str(m_qwen_edit), defaultImageModel |-> Str(m_flux_schnell),
     defaultNetwork |-> Undef,
     modelDefaults |-> {<<m_flux_schnell, [steps |-> Num(8), guidance |-> Num(20)]>>}]
\* A configuration whose numbers are not finite numbers and whose timeouts are
\* the built-in 30 seconds.
OddConfig ==
    [EmptyConfig EXCEPT !.defaultWidth = Str(t_640), !.defaultHeight = NaN,
                        !.defaultCount = Null, !.defaultFps = Str(t_24),
                        !.defaultDurationSec = NaN, !.defaultTokenType = Str(<<>>),
                        !.defaultVideoTimeoutSec = Num(30),
                        !.defaultImageTimeoutSec = Num(30)]
\* A configuration with per-model overrides of the steps and the guidance (in
\* tenths) for the models the requests resolve to.
OverrideConfig ==
    [EmptyConfig EXCEPT !.modelDefaults =
        {<<m_qwen_edit_lightning, [steps |-> Num(6), guidance |-> Num(20)]>>,
         <<m_z_image_turbo, [steps |-> Num(9), guidance |-> Undef]>>,
         <<m_t2v_lightx2v, [steps |-> Undef, guidance |-> Num(30)]>>}]
\* A configuration whose model for the workflow t2v is an image-to-video
\* model.
CrossedModelsConfig ==
    [EmptyConfig EXCEPT !.videoModels = {<<s_t2v, Str(m_i2v_quality)>>}]
WorkflowConfig(w) == [EmptyConfig EXCEPT !.defaultVideoWorkflow = Str(w)]
StrategyConfig(s) == [EmptyConfig EXCEPT !.seedStrategy = Str(s)]

\* The file at LAST_RENDER_PATH: absent, not parseable, or a record.
NoFile ==
    [state |-> "absent", seed |-> Undef, localPath |-> Undef, localExists |-> FALSE,
     url0 |-> Undef]
CorruptFile == [NoFile EXCEPT !.state = "corrupt"]
RecordFile(seed) ==
    [state |-> "ok", seed |-> seed, localPath |-> Str(t_last_png),
     localExists |-> TRUE, url0 |-> Str(t_last_url)]

Slices == {"merge", "workflow", "seed", "hash", "flags", "edit", "run"}

Opt(tokens) == {Absent} \cup {Str(t) : t \in tokens}

ArgvSpace(s) ==
    CASE s = "merge" ->
        {[BaseArgv EXCEPT !.video = v, !.width = d[1], !.height = d[2], !.count = c,
                          !.tokenType = k, !.seedStrategy = g, !.fps = f,
                          !.duration = u, !.frames = r, !.timeout = t, !.model = m,
                          !.ref = Str(t_a_jpg)] :
            v \in BOOLEAN,
            d \in {<<Absent, Absent>>, <<Str(t_640), Absent>>, <<Absent, Str(t_768)>>,
                   <<Str(t_500), Absent>>},
            c \in Opt({t_2}), k \in Opt({t_Spark}), g \in Opt({t_PROMPT_HASH}),
            f \in Opt({t_24}), u \in Opt({t_3}), r \in Opt({t_48, t_0}),
            t \in Opt({t_30}), m \in Opt({t_custom_model})}
      [] s = "workflow" ->
        {[BaseArgv EXCEPT !.video = TRUE, !.workflow = w, !.model = m, !.ref = a[1],
                          !.refEnd = a[2], !.refAudio = a[3], !.refVideo = a[4],
                          !.lastImage = l] :
            w \in Opt({<<>>, t_I2V, s_text_to_video, s_animate_replace_us, t_bogus})
                    \cup {Undef},
            m \in Opt({m_t2v_lightx2v, m_s2v_lightx2v, t_custom_model}),
            a \in Opt({t_a_jpg}) \X Opt({t_e_jpg}) \X Opt({t_s_m4a}) \X Opt({t_m_mp4}),
            l \in BOOLEAN}
      [] s = "seed" ->
        {[BaseArgv EXCEPT !.seed = x, !.lastSeed = l, !.seedStrategy = g,
                          !.video = k[1], !.context = k[2]] :
            x \in Opt({t_42, t_0, t_neg5, t_abc, t_70000}) \cup {Undef},
            l \in BOOLEAN,
            g \in Opt({t_PROMPT_HASH, s_random, t_bogus, <<>>}),
            k \in {<<FALSE, <<>> >>, <<TRUE, <<>> >>, <<FALSE, <<Str(t_c_png)>> >>}}
      [] s = "hash" ->
        {[BaseArgv EXCEPT !.prompt = p, !.width = w, !.video = v, !.count = x[1],
                          !.tokenType = x[2], !.output = x[3], !.fps = x[4]] :
            p \in {Str(t_cat), Str(t_dog)}, w \in Opt({t_640}), v \in BOOLEAN,
            x \in {<<Absent, Absent, Absent, Absent>>,
                   <<Str(t_2), Str(t_Spark), Str(t_out_png), Str(t_24)>>}}
      [] s = "flags" ->
        {[BaseArgv EXCEPT !.video = v, !.workflow = w, !.frames = r, !.refAudio = a,
                          !.refVideo = m, !.prompt = p, !.tokenType = k] :
            v \in BOOLEAN, w \in Opt({<<>>, s_i2v}), r \in Opt({t_0, t_48, t_abc}),
            a \in Opt({<<>>, t_s_m4a}), m \in Opt({t_m_mp4}),
            p \in Opt({t_cat}), k \in Opt({t_gold})}
      [] s = "edit" ->
        {[BaseArgv EXCEPT !.video = v, !.context = c, !.lastImage = l, !.model = m,
                          !.steps = x[1], !.guidance = x[2], !.json = j] :
            v \in BOOLEAN,
            c \in {<<>>, <<Str(t_c_png)>>, <<Str(t_c_png), Str(t_a_jpg), Str(t_e_jpg)>>},
            l \in BOOLEAN, m \in Opt({m_qwen_edit, t_custom_model}),
            x \in {<<Absent, Absent>>, <<Str(t_0), Str(t_0)>>, <<Str(t_2), Str(t_2_5)>>,
                   <<Str(t_abc), Absent>>, <<Absent, Str(t_abc)>>},
            j \in BOOLEAN}
      [] s = "run" ->
        {[BaseArgv EXCEPT !.info = i, !.lastImage = l, !.lastSeed = d, !.json = j,
                          !.output = o, !.count = c, !.video = v, !.other = b[1],
                          !.prompt = b[2]] :
            i \in {"none", "help", "last"}, l \in BOOLEAN, d \in BOOLEAN,
            j \in BOOLEAN, o \in Opt({t_out_png}), c \in Opt({t_2, t_abc}),
            v \in BOOLEAN,
            b \in {<<Absent, Str(t_cat)>>, <<Str(t_balance), Absent>>,
                   <<Str(t_balance), Str(t_cat)>>, <<Str(t_gold), Absent>>}}

CfgSpace(s) ==
    CASE s = "merge" -> {NoConfig, FullConfig, OddConfig}
      [] s = "workflow" ->
        {NoConfig, WorkflowConfig(s_s2v), WorkflowConfig(s_image_to_video),
         WorkflowConfig(s_animate_replace), WorkflowConfig(t_bogus)}
      [] s = "seed" -> {NoConfig, StrategyConfig(s_random), StrategyConfig(t_bogus)}
      [] s = "hash" -> {NoConfig}
      [] s = "flags" -> {NoConfig, CrossedModelsConfig}
      [] s = "edit" -> {NoConfig, OverrideConfig}
      [] s = "run" -> {NoConfig}

FileSpace(s) ==
    CASE s = "merge" -> {NoFile}
      [] s = "workflow" -> {RecordFile(Num(RandomInner))}
      [] s = "seed" ->
        {NoFile, CorruptFile, RecordFile(Num(0)), RecordFile(Num(RandomInner)),
         RecordFile(Null)}
      [] s = "hash" -> {NoFile}
      [] s = "flags" -> {NoFile}
      [] s = "edit" -> {RecordFile(Num(RandomInner))}
      [] s = "run" -> {NoFile, CorruptFile, RecordFile(Num(RandomInner))}

(***************************************************************************)
(* The script, block by block.                                             *)
(***************************************************************************)
Init ==
    /\ slice \in Slices
    /\ cfg \in CfgSpace(slice)
    /\ lastRender \in FileSpace(slice)
    /\ argv = BaseArgv
    /\ options = InitialOptions
    /\ cliSet = InitialCliSet
    /\ timeoutFromConfig = FALSE
    /\ pc = "parse"
    /\ exitCode = -1
    /\ err = "none"
    /\ request = NoRequest
    /\ hashObs = NoObs
    /\ prevObs = NoObs
    /\ connected = FALSE
    /\ completedJobs = 0
    /\ stdout = NoOutput
    /\ renderInfo = NoRenderInfo
    /\ results = 0
    /\ completion = "pending"
    /\ lastRenderWrites = 0

\* x * k and x / k on a JavaScript number: NaN stays NaN.
Times(x, k) == IF x.t = "num" THEN Num(x.n * k) ELSE NaN

\* parseFloat(tok), in tenths: the digits, then at most one digit after the
\* point.  The guidance (3.5, 7.5, 1.0 in the program) is carried in tenths.
parseFloat(tok) ==
    IF tok.t # "str" THEN NaN
    ELSE LET s == tok.s
             whole == parseInt(tok)
             dot == CHOOSE i \in 1..(Len(s) + 1) :
                        i = Len(s) + 1 \/ (s[i] = "." /\ \A j \in 1..(i - 1) : s[j] # ".")
             frac == IF dot < Len(s) /\ IsDigit(s[dot + 1])
                     THEN DigitVal(s[dot + 1]) ELSE 0
         IN IF whole.t # "num" THEN NaN
            ELSE IF whole.n < 0 THEN Num(whole.n * 10 - frac)
            ELSE Num(whole.n * 10 + frac)

\* What --last-image takes from the record (lines 236-241).
lastImagePathOf(file) ==
    IF Truthy(file.localPath) /\ file.localExists THEN file.localPath
    ELSE IF Truthy(file.url0) THEN file.url0
    ELSE Null

\* The flag's value, converted, or the field's initial value without the flag.
Flag(tok, initial, converted) == IF tok = Absent THEN initial ELSE converted

\* arg.startsWith('-')
startsWithDash(s) == Len(s) > 0 /\ s[1] = "-"

\* The argument loop (lines 165-329).  An argument no branch names is the
\* prompt when it does not start with a dash and no prompt was read yet, and
\* is skipped otherwise (lines 326-328).  --help and --last leave at once; the
\* command lines explored give them before any other flag.  JSON.parse of
\* --last-image is outside any try: a record that does not parse ends the
\* process on the uncaught exception.
ParseArgs ==
    /\ pc = "parse"
    /\ \E a \in ArgvSpace(slice) :
        /\ argv' = a
        /\ stdout' = IF a.info = "help" THEN [NoOutput EXCEPT !.kind = "help"]
                     ELSE IF a.info = "last" /\ lastRender.state # "absent"
                     THEN [NoOutput EXCEPT !.kind = "file"]
                     ELSE stdout
        /\ IF a.info # "none"
           THEN Exit(0, a.info) /\ UNCHANGED <<options, cliSet>>
           ELSE IF a.lastImage /\ lastRender.state = "corrupt"
           THEN Exit(1, "uncaught") /\ UNCHANGED <<options, cliSet>>
           ELSE /\ options' =
                    [prompt |-> IF a.prompt # Absent THEN a.prompt
                                ELSE IF a.other # Absent /\ ~startsWithDash(a.other.s)
                                THEN a.other
                                ELSE Null,
                     output |-> Flag(a.output, Null, a.output),
                     model |-> Flag(a.model, Null, a.model),
                     width |-> Flag(a.width, Num(512), parseInt(a.width)),
                     height |-> Flag(a.height, Num(512), parseInt(a.height)),
                     count |-> Flag(a.count, Num(1), parseInt(a.count)),
                     json |-> a.json,
                     quiet |-> a.quiet,
                     timeout |-> Flag(a.timeout, Num(30000), Times(parseInt(a.timeout), 1000)),
                     tokenType |-> Flag(a.tokenType, Null, a.tokenType),
                     steps |-> Flag(a.steps, Null, parseInt(a.steps)),
                     guidance |-> Flag(a.guidance, Null, parseFloat(a.guidance)),
                     seed |-> Flag(a.seed, Null, parseInt(a.seed)),
                     lastSeed |-> a.lastSeed,
                     seedStrategy |-> Flag(a.seedStrategy, Null, a.seedStrategy),
                     video |-> a.video,
                     videoWorkflow |-> Flag(a.workflow, Null, a.workflow),
                     fps |-> Flag(a.fps, Num(16), parseInt(a.fps)),
                     duration |-> Flag(a.duration, Num(5), parseInt(a.duration)),
                     frames |-> Flag(a.frames, Null, parseInt(a.frames)),
                     refImage |-> Flag(a.ref, Null, a.ref),
                     refImageEnd |-> Flag(a.refEnd, Null, a.refEnd),
                     refAudio |-> Flag(a.refAudio, Null, a.refAudio),
                     refVideo |-> Flag(a.refVideo, Null, a.refVideo),
                     contextImages |-> a.context,
                     lastImagePath |->
                         IF a.lastImage /\ lastRender.state = "ok"
                               /\ Truthy(lastImagePathOf(lastRender))
                         THEN lastImagePathOf(lastRender) ELSE Undef]
                /\ cliSet' =
                    [output |-> a.output # Absent, model |-> a.model # Absent,
                     width |-> a.width # Absent, height |-> a.height # Absent,
                     count |-> a.count # Absent, timeout |-> a.timeout # Absent,
                     tokenType |-> a.tokenType # Absent, steps |-> a.steps # Absent,
                     guidance |-> a.guidance # Absent, seed |-> a.seed # Absent,
                     seedStrategy |-> a.seedStrategy # Absent, video |-> a.video,
                     workflow |-> a.workflow # Absent, fps |-> a.fps # Absent,
                     duration |-> a.duration # Absent, frames |-> a.frames # Absent,
                     refImage |-> a.ref # Absent, refImageEnd |-> a.refEnd # Absent,
                     refAudio |-> a.refAudio # Absent, refVideo |-> a.refVideo # Absent,
                     context |-> a.context # <<>>]
                /\ pc' = "merge"
                /\ UNCHANGED <<exitCode, err>>
    /\ UNCHANGED <<results, completion, lastRenderWrites,
                   slice, cfg, lastRender, timeoutFromConfig, request, hashObs, prevObs,
                   connected, completedJobs, renderInfo>>

\* The overlay of the plugin configuration (lines 331-368).
MergeConfig ==
    /\ pc = "merge"
    /\ LET o1 == IF ~cliSet.width /\ isNumber(cfg.defaultWidth)
                 THEN [options EXCEPT !.width = cfg.defaultWidth] ELSE options
           o2 == IF ~cliSet.height /\ isNumber(cfg.defaultHeight)
                 THEN [o1 EXCEPT !.height = cfg.defaultHeight] ELSE o1
           o3 == IF ~cliSet.count /\ isNumber(cfg.defaultCount)
                 THEN [o2 EXCEPT !.count = cfg.defaultCount] ELSE o2
           o4 == IF ~cliSet.tokenType /\ Truthy(cfg.defaultTokenType)
                 THEN [o3 EXCEPT !.tokenType = cfg.defaultTokenType] ELSE o3
           o5 == IF ~cliSet.seedStrategy /\ Truthy(cfg.seedStrategy)
                 THEN [o4 EXCEPT !.seedStrategy = cfg.seedStrategy] ELSE o4
           v1 == IF ~cliSet.workflow /\ Truthy(cfg.defaultVideoWorkflow)
                 THEN [o5 EXCEPT !.videoWorkflow = cfg.defaultVideoWorkflow] ELSE o5
           v2 == IF ~cliSet.fps /\ isNumber(cfg.defaultFps)
                 THEN [v1 EXCEPT !.fps = cfg.defaultFps] ELSE v1
           v3 == IF ~cliSet.frames /\ ~cliSet.duration /\ isNumber(cfg.defaultDurationSec)
                 THEN [v2 EXCEPT !.duration = cfg.defaultDurationSec] ELSE v2
           videoTimeout == ~cliSet.timeout /\ isNumber(cfg.defaultVideoTimeoutSec)
           v4 == IF videoTimeout
                 THEN [v3 EXCEPT !.timeout = Times(cfg.defaultVideoTimeoutSec, 1000)]
                 ELSE v3
           imageTimeout == ~cliSet.timeout /\ isNumber(cfg.defaultImageTimeoutSec)
           i1 == IF imageTimeout
                 THEN [o5 EXCEPT !.timeout = Times(cfg.defaultImageTimeoutSec, 1000)]
                 ELSE o5
       IN IF ~cfg.present
          THEN options' = options /\ timeoutFromConfig' = FALSE
          ELSE IF options.video
          THEN options' = v4 /\ timeoutFromConfig' = videoTimeout
          ELSE options' = i1 /\ timeoutFromConfig' = imageTimeout
    /\ pc' = "validate"
    /\ UNCHANGED <<results, completion, lastRenderWrites,
                   slice, cfg, lastRender, argv, cliSet, exitCode, err, request,
                   hashObs, prevObs, connected,
                                  completedJobs, stdout, renderInfo>>

\* The checks of the token type, the seed strategy, the steps and the
\* guidance (lines 370-396), in the script's order.
ValidateOptions ==
    /\ pc = "validate"
    /\ LET token == toLowerCase(options.tokenType.s)
           o1 == IF Truthy(options.tokenType)
                 THEN [options EXCEPT !.tokenType = Str(token)] ELSE options
           normalizedStrategy == normalizeSeedStrategy(options.seedStrategy)
           o2 == IF Truthy(options.seedStrategy)
                 THEN [o1 EXCEPT !.seedStrategy = normalizedStrategy] ELSE o1
       IN IF Truthy(options.tokenType) /\ token # s_spark /\ token # s_sogni
          THEN Exit(1, "token-type") /\ options' = options
          ELSE IF Truthy(options.seedStrategy) /\ ~Truthy(normalizedStrategy)
          THEN Exit(1, "seed-strategy") /\ options' = o1
          ELSE IF cliSet.steps /\ ~isNumber(options.steps)
          THEN Exit(1, "steps") /\ options' = o2
          ELSE IF cliSet.guidance /\ ~isNumber(options.guidance)
          THEN Exit(1, "guidance") /\ options' = o2
          ELSE options' = o2 /\ pc' = "workflow" /\ UNCHANGED <<exitCode, err>>
    /\ UNCHANGED <<results, completion, lastRenderWrites,
                   slice, cfg, lastRender, argv, cliSet, timeoutFromConfig, request,
                   hashObs, prevObs, connected,
                                  completedJobs, stdout, renderInfo>>

\* Normalisation and inference of the video workflow (lines 398-417).
ResolveWorkflow ==
    /\ pc = "workflow"
    /\ LET normalized == normalizeVideoWorkflow(options.videoWorkflow)
           o1 == IF Truthy(options.videoWorkflow)
                 THEN [options EXCEPT !.videoWorkflow = normalized] ELSE options
           workflowFromModel == inferVideoWorkflowFromModel(options.model)
           inferred == Or(Or(Or(workflowFromModel, inferVideoWorkflowFromAssets(o1)),
                             cfg.defaultVideoWorkflow), Str(s_t2v))
           o2 == IF ~Truthy(o1.videoWorkflow)
                 THEN [o1 EXCEPT !.videoWorkflow = inferred] ELSE o1
       IN IF ~options.video
          THEN options' = options /\ pc' = "lastImage" /\ UNCHANGED <<exitCode, err>>
          ELSE IF Truthy(options.videoWorkflow) /\ ~Truthy(normalized)
          THEN Exit(1, "unknown-workflow") /\ options' = options
          ELSE IF Truthy(o1.videoWorkflow) /\ Truthy(workflowFromModel)
                    /\ o1.videoWorkflow # workflowFromModel
          THEN Exit(1, "workflow-mismatch") /\ options' = o1
          ELSE options' = o2 /\ pc' = "lastImage" /\ UNCHANGED <<exitCode, err>>
    /\ UNCHANGED <<results, completion, lastRenderWrites,
                   slice, cfg, lastRender, argv, cliSet, timeoutFromConfig, request,
                   hashObs, prevObs, connected,
                                  completedJobs, stdout, renderInfo>>

\* --last-image, once the workflow is known (lines 419-431).
ResolveLastImage ==
    /\ pc = "lastImage"
    /\ LET path == options.lastImagePath
           o1 == IF options.video
                 THEN IF workflowRequiresImage(options.videoWorkflow)
                         /\ ~Truthy(options.refImage)
                      THEN [options EXCEPT !.refImage = path]
                      ELSE options
                 ELSE [options EXCEPT !.contextImages = Append(@, path)]
       IN options' = IF Truthy(path) THEN [o1 EXCEPT !.lastImagePath = Undef]
                     ELSE options
    /\ pc' = "defaults"
    /\ UNCHANGED <<results, completion, lastRenderWrites,
                   slice, cfg, lastRender, argv, cliSet, timeoutFromConfig, exitCode,
                   err, request, hashObs, prevObs, connected,
                                  completedJobs, stdout, renderInfo>>

\* A variant of SetTypeDefaults that takes a timeout of 30 seconds for the
\* untouched built-in value, whoever chose it.
SetTypeDefaultsByValue ==
    /\ pc = "defaults"
    /\ LET cfgModel == IF Truthy(options.videoWorkflow)
                       THEN Lookup(cfg.videoModels, options.videoWorkflow.s) ELSE Null
           untouched == options.timeout = Num(30000)
       IN options' =
            IF options.video
            THEN [options EXCEPT
                    !.model = Or(Or(Or(@, cfgModel),
                                    VIDEO_WORKFLOW_DEFAULT_MODELS(options.videoWorkflow)),
                                 Str(m_i2v_lightx2v)),
                    !.timeout = IF untouched THEN Num(300000) ELSE @]
            ELSE IF Len(options.contextImages) > 0
            THEN [options EXCEPT
                    !.model = Or(Or(@, cfg.defaultEditModel), Str(m_qwen_edit_lightning)),
                    !.timeout = IF untouched THEN Num(60000) ELSE @]
            ELSE [options EXCEPT
                    !.model = Or(Or(@, cfg.defaultImageModel), Str(m_z_image_turbo))]
    /\ pc' = "precond"
    /\ UNCHANGED <<results, completion, lastRenderWrites,
                   slice, cfg, lastRender, argv, cliSet, timeoutFromConfig, exitCode,
                   err, request, hashObs, prevObs, connected, completedJobs, stdout,
                   renderInfo>>

\* A variant of SetTypeDefaults that looks the model up in the table of the
\* workflows before the configured per-workflow models.
SetTypeDefaultsTableFirst ==
    /\ pc = "defaults"
    /\ LET cfgModel == IF Truthy(options.videoWorkflow)
                       THEN Lookup(cfg.videoModels, options.videoWorkflow.s) ELSE Null
           untouched == ~cliSet.timeout /\ ~timeoutFromConfig
                            /\ options.timeout = Num(30000)
       IN options' =
            IF options.video
            THEN [options EXCEPT
                    !.model = Or(Or(Or(@, VIDEO_WORKFLOW_DEFAULT_MODELS(
                                              options.videoWorkflow)),
                                    cfgModel),
                                 Str(m_i2v_lightx2v)),
                    !.timeout = IF untouched THEN Num(300000) ELSE @]
            ELSE IF Len(options.contextImages) > 0
            THEN [options EXCEPT
                    !.model = Or(Or(@, cfg.defaultEditModel), Str(m_qwen_edit_lightning)),
                    !.timeout = IF untouched THEN Num(60000) ELSE @]
            ELSE [options EXCEPT
                    !.model = Or(Or(@, cfg.defaultImageModel), Str(m_z_image_turbo))]
    /\ pc' = "precond"
    /\ UNCHANGED <<results, completion, lastRenderWrites,
                   slice, cfg, lastRender, argv, cliSet, timeoutFromConfig, exitCode,
                   err, request, hashObs, prevObs, connected, completedJobs, stdout,
                   renderInfo>>

\* The model and the timeout by type (lines 433-449).
SetTypeDefaults ==
    /\ pc = "defaults"
    /\ LET cfgModel == IF Truthy(options.videoWorkflow)
                       THEN Lookup(cfg.videoModels, options.videoWorkflow.s) ELSE Null
           untouched == ~cliSet.timeout /\ ~timeoutFromConfig
                            /\ options.timeout = Num(30000)
       IN options' =
            IF options.video
            THEN [options EXCEPT
                    !.model = Or(Or(Or(@, cfgModel),
                                    VIDEO_WORKFLOW_DEFAULT_MODELS(options.videoWorkflow)),
                                 Str(m_i2v_lightx2v)),
                    !.timeout = IF untouched THEN Num(300000) ELSE @]
            ELSE IF Len(options.contextImages) > 0
            THEN [options EXCEPT
                    !.model = Or(Or(@, cfg.defaultEditModel), Str(m_qwen_edit_lightning)),
                    !.timeout = IF untouched THEN Num(60000) ELSE @]
            ELSE [options EXCEPT
                    !.model = Or(Or(@, cfg.defaultImageModel), Str(m_z_image_turbo))]
    /\ pc' = "precond"
    /\ UNCHANGED <<results, completion, lastRenderWrites,
                   slice, cfg, lastRender, argv, cliSet, timeoutFromConfig, exitCode,
                   err, request, hashObs, prevObs, connected,
                                  completedJobs, stdout, renderInfo>>

\* The prompt and the video-only options (lines 451-459).
CheckPreconditions ==
    /\ pc = "precond"
    /\ IF ~Truthy(options.prompt)
       THEN Exit(1, "no-prompt")
       ELSE IF ~options.video
                 /\ (Truthy(options.refAudio) \/ Truthy(options.refVideo)
                     \/ Truthy(options.videoWorkflow) \/ Truthy(options.frames))
       THEN Exit(1, "video-only")
       ELSE pc' = "assets" /\ UNCHANGED <<exitCode, err>>
    /\ UNCHANGED <<results, completion, lastRenderWrites,
                   slice, cfg, lastRender, argv, options, cliSet, timeoutFromConfig,
                   request, hashObs, prevObs, connected,
                                  completedJobs, stdout, renderInfo>>

\* The assets each workflow takes (lines 461-495): TRUE when a check fails.
assetError(opts) ==
    IF opts.videoWorkflow = Str(s_t2v)
    THEN Truthy(opts.refImage) \/ Truthy(opts.refImageEnd) \/ Truthy(opts.refAudio)
            \/ Truthy(opts.refVideo)
    ELSE IF opts.videoWorkflow = Str(s_i2v)
    THEN (~Truthy(opts.refImage) /\ ~Truthy(opts.refImageEnd))
            \/ Truthy(opts.refAudio) \/ Truthy(opts.refVideo)
    ELSE IF opts.videoWorkflow = Str(s_s2v)
    THEN ~Truthy(opts.refImage) \/ ~Truthy(opts.refAudio) \/ Truthy(opts.refVideo)
    ELSE IF opts.videoWorkflow = Str(s_animate_move)
              \/ opts.videoWorkflow = Str(s_animate_replace)
    THEN ~Truthy(opts.refImage) \/ ~Truthy(opts.refVideo) \/ Truthy(opts.refAudio)
    ELSE FALSE

\* A variant of ValidateAssets that reports the error of the assets and goes
\* on to the next check.
ValidateAssetsNoExit ==
    /\ pc = "assets"
    /\ pc' = "context"
    /\ IF options.video /\ assetError(options)
       THEN exitCode' = 1 /\ err' = "asset"
       ELSE UNCHANGED <<exitCode, err>>
    /\ UNCHANGED <<results, completion, lastRenderWrites,
                   slice, cfg, lastRender, argv, options, cliSet, timeoutFromConfig,
                   request, hashObs, prevObs, connected, completedJobs, stdout,
                   renderInfo>>

ValidateAssets ==
    /\ pc = "assets"
    /\ IF options.video /\ assetError(options)
       THEN Exit(1, "asset")
       ELSE pc' = "context" /\ UNCHANGED <<exitCode, err>>
    /\ UNCHANGED <<results, completion, lastRenderWrites,
                   slice, cfg, lastRender, argv, options, cliSet, timeoutFromConfig,
                   request, hashObs, prevObs, connected,
                                  completedJobs, stdout, renderInfo>>

\* A variant of ValidateContextImages that checks nothing.
ValidateContextImagesSkipped ==
    /\ pc = "context"
    /\ pc' = "lastSeed"
    /\ UNCHANGED <<results, completion, lastRenderWrites,
                   slice, cfg, lastRender, argv, options, cliSet, timeoutFromConfig,
                   exitCode, err, request, hashObs, prevObs, connected,
                   completedJobs, stdout, renderInfo>>

\* The context images against the model's limit (lines 497-509).
ValidateContextImages ==
    /\ pc = "context"
    /\ LET maxImages == getMaxContextImages(options.model) IN
       IF Len(options.contextImages) > 0 /\ ~options.video
             /\ (maxImages = 0 \/ Len(options.contextImages) > maxImages)
       THEN Exit(1, "context")
       ELSE pc' = "lastSeed" /\ UNCHANGED <<exitCode, err>>
    /\ UNCHANGED <<results, completion, lastRenderWrites,
                   slice, cfg, lastRender, argv, options, cliSet, timeoutFromConfig,
                   request, hashObs, prevObs, connected,
                                  completedJobs, stdout, renderInfo>>

\* A variant of LoadLastSeed that ends the process when --last-seed finds no
\* record, instead of warning.
LoadLastSeedOrFail ==
    /\ pc = "lastSeed"
    /\ IF options.lastSeed /\ lastRender.state = "absent"
       THEN Exit(1, "no-last-render") /\ UNCHANGED options
       ELSE /\ options' = IF options.lastSeed /\ lastRender.state = "ok"
                                /\ Truthy(lastRender.seed)
                           THEN [options EXCEPT !.seed = lastRender.seed]
                           ELSE options
            /\ pc' = "seed"
            /\ UNCHANGED <<exitCode, err>>
    /\ UNCHANGED <<results, completion, lastRenderWrites,
                   slice, cfg, lastRender, argv, cliSet, timeoutFromConfig, request,
                   hashObs, prevObs, connected,
                                  completedJobs, stdout, renderInfo>>

\* --last-seed (lines 511-526): the record's seed when it is truthy; a missing
\* or unparseable record only warns.
LoadLastSeed ==
    /\ pc = "lastSeed"
    /\ options' = IF options.lastSeed /\ lastRender.state = "ok" /\ Truthy(lastRender.seed)
                  THEN [options EXCEPT !.seed = lastRender.seed]
                  ELSE options
    /\ pc' = "seed"
    /\ UNCHANGED <<results, completion, lastRenderWrites,
                   slice, cfg, lastRender, argv, cliSet, timeoutFromConfig, exitCode,
                   err, request, hashObs, prevObs, connected,
                                  completedJobs, stdout, renderInfo>>

\* A variant of DeriveSeed that derives the seed by strategy even when the
\* options already hold one.
DeriveSeedAlways ==
    /\ pc = "seed"
    /\ LET strategy == Or(Or(options.seedStrategy, cfg.seedStrategy), Str(s_prompt_hash))
           normalized == Or(normalizeSeedStrategy(strategy), Str(s_prompt_hash))
           o1 == [options EXCEPT !.seedStrategy = normalized]
       IN IF normalized = Str(s_random)
          THEN /\ \E r \in generateRandomSeed : options' = [o1 EXCEPT !.seed = Num(r)]
               /\ hashObs' = hashObs
          ELSE /\ options' = [o1 EXCEPT !.seed = Num(computePromptHashSeed(o1))]
               /\ hashObs' = [made |-> TRUE, opts |-> o1,
                              seed |-> computePromptHashSeed(o1)]
    /\ pc' = "main"
    /\ UNCHANGED <<results, completion, lastRenderWrites,
                   slice, cfg, lastRender, argv, cliSet, timeoutFromConfig, exitCode,
                   err, request, prevObs, connected,
                                  completedJobs, stdout, renderInfo>>

\* The seed by strategy when there is none yet (lines 528-536).
DeriveSeed ==
    /\ pc = "seed"
    /\ IF Nullish(options.seed)
       THEN LET strategy == Or(Or(options.seedStrategy, cfg.seedStrategy),
                               Str(s_prompt_hash))
                normalized == Or(normalizeSeedStrategy(strategy), Str(s_prompt_hash))
                o1 == [options EXCEPT !.seedStrategy = normalized]
            IN IF normalized = Str(s_random)
               THEN /\ \E r \in generateRandomSeed : options' = [o1 EXCEPT !.seed = Num(r)]
                    /\ hashObs' = hashObs
               ELSE /\ options' = [o1 EXCEPT !.seed = Num(computePromptHashSeed(o1))]
                    /\ hashObs' = [made |-> TRUE, opts |-> o1,
                                   seed |-> computePromptHashSeed(o1)]
       ELSE UNCHANGED <<options, hashObs>>
    /\ pc' = "main"
    /\ UNCHANGED <<results, completion, lastRenderWrites,
                   slice, cfg, lastRender, argv, cliSet, timeoutFromConfig, exitCode,
                   err, request, prevObs, connected,
                                  completedJobs, stdout, renderInfo>>

(***************************************************************************)
(* main (lines 589-874), as far as the creation of the project.            *)
(***************************************************************************)
\* throw inside main's try: control passes to the catch block.
Throw(why) ==
    /\ pc' = "catch"
    /\ err' = why
    /\ UNCHANGED exitCode

\* loadCredentials and client.connect (lines 590-605): without credentials
\* the process leaves with code 1 before any call of the client; a connection
\* that fails throws inside main's try.
Connect ==
    /\ pc = "main"
    /\ \/ Exit(1, "credentials") /\ UNCHANGED connected
       \/ Throw("connect") /\ connected' = TRUE
       \/ pc' = "create" /\ connected' = TRUE /\ UNCHANGED <<exitCode, err>>
    /\ UNCHANGED <<results, completion, lastRenderWrites,
                   slice, cfg, lastRender, argv, options, cliSet, timeoutFromConfig,
                   request, hashObs, prevObs, completedJobs, stdout, renderInfo>>

\* A reference that is fetched is handed on as its path; undefined otherwise.
buffer(ref) == IF Truthy(ref) THEN ref ELSE Undef
hasSeed(opts) == ~Nullish(opts.seed)

\* The project configuration of a video (lines 656-702).
videoProjectConfig(opts, config) ==
    LET modelDefaults == getModelDefaults(opts.model, config)
        steps == Coalesce(opts.steps, modelDefaults.steps)
        guidance == Coalesce(opts.guidance, modelDefaults.guidance)
    IN [NoRequest EXCEPT
          !.kind = "video",
          !.modelId = opts.model,
          !.positivePrompt = opts.prompt,
          !.numberOfMedia = opts.count,
          !.referenceImage = buffer(opts.refImage),
          !.fps = opts.fps,
          !.width = opts.width,
          !.height = opts.height,
          !.tokenType = Or(opts.tokenType, Str(s_spark)),
          !.frames = IF Truthy(opts.frames) THEN opts.frames ELSE Undef,
          !.duration = IF Truthy(opts.frames) THEN Undef ELSE opts.duration,
          !.referenceImageEnd = buffer(opts.refImageEnd),
          !.referenceAudio = buffer(opts.refAudio),
          !.referenceVideo = buffer(opts.refVideo),
          !.seed = IF hasSeed(opts) THEN opts.seed ELSE Undef,
          !.steps = IF Truthy(steps) THEN steps ELSE Undef,
          !.guidance = IF ~Nullish(guidance) THEN guidance ELSE Undef]

\* The configuration of an image edit (lines 712-733); the guidance in tenths.
editConfig(opts, config) ==
    LET modelDefaults == getModelDefaults(opts.model, config)
        lightning == includes(opts.model.s, s_lightning)
        steps == Coalesce(Coalesce(opts.steps, modelDefaults.steps),
                          IF lightning THEN Num(4) ELSE Num(20))
        guidance == Coalesce(Coalesce(opts.guidance, modelDefaults.guidance),
                             IF lightning THEN Num(35) ELSE Num(75))
    IN [NoRequest EXCEPT
          !.kind = "edit",
          !.modelId = opts.model,
          !.positivePrompt = opts.prompt,
          !.contextImages = opts.contextImages,
          !.numberOfMedia = opts.count,
          !.width = opts.width,
          !.height = opts.height,
          !.steps = steps,
          !.guidance = guidance,
          !.tokenType = Or(opts.tokenType, Str(s_spark)),
          !.seed = IF hasSeed(opts) THEN opts.seed ELSE Undef]

\* The project configuration of a plain image (lines 740-763).
imageProjectConfig(opts, config) ==
    LET modelDefaults == getModelDefaults(opts.model, config)
        guidance == Coalesce(Coalesce(opts.guidance, modelDefaults.guidance), Num(10))
        steps == Coalesce(opts.steps, modelDefaults.steps)
    IN [NoRequest EXCEPT
          !.kind = "image",
          !.modelId = opts.model,
          !.positivePrompt = opts.prompt,
          !.numberOfMedia = opts.count,
          !.tokenType = Or(opts.tokenType, Str(s_spark)),
          !.sizePreset = Str(<<"c", "u", "s", "t", "o", "m">>),
          !.width = opts.width,
          !.height = opts.height,
          !.guidance = guidance,
          !.steps = IF Truthy(steps) THEN steps ELSE Undef,
          !.seed = IF hasSeed(opts) THEN opts.seed ELSE Undef]

\* Whether the request reads a file or a URL before it is built.
fetchesMedia(opts) ==
    IF opts.video
    THEN Truthy(opts.refImage) \/ Truthy(opts.refImageEnd) \/ Truthy(opts.refAudio)
            \/ Truthy(opts.refVideo)
    ELSE Len(opts.contextImages) > 0

\* The fetch of the references and the creation of the project (lines
\* 648-766): a fetch that fails throws before the request is built; the
\* client can reject the request it is handed.
CreateProject ==
    /\ pc = "create"
    /\ \/ /\ fetchesMedia(options)
          /\ Throw("fetch")
          /\ UNCHANGED request
       \/ /\ request' = IF options.video THEN videoProjectConfig(options, cfg)
                        ELSE IF Len(options.contextImages) > 0
                        THEN editConfig(options, cfg)
                        ELSE imageProjectConfig(options, cfg)
          /\ pc' = "submitted"
          /\ UNCHANGED <<exitCode, err>>
    /\ UNCHANGED <<results, completion, lastRenderWrites,
                   slice, cfg, lastRender, argv, options, cliSet, timeoutFromConfig,
                   hashObs, prevObs, connected,
                                  completedJobs, stdout, renderInfo>>

\* The JOB_COMPLETED events explored in one run.
MaxJobs == 4

\* A variant of JobCompleted that resolves the promise one completion early.
JobCompletedResolvesEarly ==
    /\ pc \in {"submitted", "await"}
    /\ completion \in {"pending", "resolved"}
    /\ completedJobs < MaxJobs
    /\ results' = results + 1
    /\ completedJobs' = completedJobs + 1
    /\ LET enough == options.count.t = "num" /\ completedJobs + 2 >= options.count.n
       IN /\ completion' = IF enough THEN "resolved" ELSE completion
          /\ pc' = IF pc = "await" /\ enough THEN "report" ELSE pc
    /\ UNCHANGED <<lastRenderWrites,
                   slice, cfg, lastRender, argv, options, cliSet, timeoutFromConfig,
                   exitCode, err, request, hashObs, prevObs, connected, stdout,
                   renderInfo>>

\* The JOB_COMPLETED handler (lines 615-631): the result is recorded and
\* counted, and the promise resolves once as many jobs have completed as
\* options.count; a comparison with NaN is false.  The handler runs from the
\* moment the project is handed to the client; after a rejection main reads
\* neither the results nor the count.
JobCompleted ==
    /\ pc \in {"submitted", "await"}
    /\ completion \in {"pending", "resolved"}
    /\ completedJobs < MaxJobs
    /\ results' = results + 1
    /\ completedJobs' = completedJobs + 1
    /\ LET enough == options.count.t = "num" /\ completedJobs + 1 >= options.count.n
       IN /\ completion' = IF enough THEN "resolved" ELSE completion
          /\ pc' = IF pc = "await" /\ enough THEN "report" ELSE pc
    /\ UNCHANGED <<lastRenderWrites,
                   slice, cfg, lastRender, argv, options, cliSet, timeoutFromConfig,
                   exitCode, err, request, hashObs, prevObs, connected, stdout,
                   renderInfo>>

\* A rejection of the completion promise (lines 611-613 and 633-636).  While
\* main awaits the promise the rejection is thrown in main's try.  Before
\* that nobody handles it: the runtime ends the process with code 1, or only
\* warns and the rejection is thrown when main reaches the await.
Reject(why) ==
    /\ completion = "pending"
    /\ IF pc = "await"
       THEN Throw(why) /\ completion' = why
       ELSE \/ Exit(1, "unhandled-rejection") /\ completion' = why
            \/ completion' = why /\ UNCHANGED <<pc, exitCode, err>>

\* The JOB_FAILED handler (lines 633-636), once the client has the project.
JobFailed ==
    /\ pc \in {"submitted", "await"}
    /\ Reject("job-failed")
    /\ UNCHANGED <<results, lastRenderWrites,
                   slice, cfg, lastRender, argv, options, cliSet, timeoutFromConfig,
                   request, hashObs, prevObs, connected, completedJobs, stdout,
                   renderInfo>>

\* The timer of the completion promise (lines 611-613), set before the
\* assets are fetched and the project is created.
Timeout ==
    /\ pc \in {"create", "submitted", "await"}
    /\ Reject("timeout")
    /\ UNCHANGED <<results, lastRenderWrites,
                   slice, cfg, lastRender, argv, options, cliSet, timeoutFromConfig,
                   request, hashObs, prevObs, connected, completedJobs, stdout,
                   renderInfo>>

\* The creation call returns and main awaits the completion promise (line
\* 769): the client can reject the project; a promise settled by then is
\* resolved or thrown at once.
AwaitCompletion ==
    /\ pc = "submitted"
    /\ \/ Throw("create")
       \/ /\ completion = "pending"
          /\ pc' = "await"
          /\ UNCHANGED <<exitCode, err>>
       \/ /\ completion = "resolved"
          /\ pc' = "report"
          /\ UNCHANGED <<exitCode, err>>
       \/ /\ completion \notin {"pending", "resolved"}
          /\ Throw(completion)
    /\ UNCHANGED <<results, completion, lastRenderWrites,
                   slice, cfg, lastRender, argv, options, cliSet, timeoutFromConfig,
                   request, hashObs, prevObs, connected, completedJobs, stdout,
                   renderInfo>>

\* const renderInfo = {...} (lines 777-805), for the seed and the first URL
\* the completed jobs reported.
renderInfoOf(opts, firstSeed, url) ==
    [type |-> IF opts.video THEN "video" ELSE "image",
     model |-> opts.model,
     seed |-> Coalesce(firstSeed, opts.seed),
     workflow |-> IF opts.video THEN opts.videoWorkflow ELSE Undef,
     refImage |-> IF opts.video THEN opts.refImage ELSE Undef,
     refImageEnd |-> IF opts.video THEN opts.refImageEnd ELSE Undef,
     refAudio |-> IF opts.video /\ Truthy(opts.refAudio) THEN opts.refAudio ELSE Undef,
     refVideo |-> IF opts.video /\ Truthy(opts.refVideo) THEN opts.refVideo ELSE Undef,
     contextImages |-> opts.contextImages,
     localPath |-> Or(opts.output, Null),
     url0 |-> url]

\* The keys of the objects --json prints (lines 826-848 and 858-862).
SuccessKeys ==
    {"success", "type", "prompt", "model", "width", "height", "seed", "seedStrategy",
     "seeds", "urls", "localPath", "tokenType"}
FailureKeys == {"success", "error", "prompt"}

\* A variant of Report in which a write of the record that fails is thrown.
ReportSaveThrows ==
    /\ pc = "report"
    /\ IF results = 0
       THEN Throw("no-output")
                /\ UNCHANGED <<lastRender, stdout, renderInfo, lastRenderWrites>>
       ELSE \E firstSeed \in {Undef, Num(RandomInner)},
               url \in {Undef, Str(t_last_url)},
               saved \in BOOLEAN, downloaded \in BOOLEAN :
            LET info == renderInfoOf(options, firstSeed, url)
                download == Truthy(options.output) /\ Truthy(url)
            IN /\ download \/ downloaded
               /\ renderInfo' = info
               /\ lastRender' =
                     IF saved
                     THEN [state |-> "ok", seed |-> info.seed,
                           localPath |-> info.localPath,
                           localExists |-> download /\ downloaded, url0 |-> url]
                     ELSE lastRender
               /\ lastRenderWrites' = IF saved THEN lastRenderWrites + 1
                                      ELSE lastRenderWrites
               /\ IF ~saved
                  THEN Throw("save") /\ UNCHANGED stdout
                  ELSE IF download /\ ~downloaded
                  THEN Throw("download") /\ UNCHANGED stdout
                  ELSE /\ stdout' =
                            IF options.json
                            THEN [kind |-> "json", success |-> TRUE,
                                  keys |-> SuccessKeys, prompt |-> options.prompt]
                            ELSE [NoOutput EXCEPT !.kind = "urls"]
                       /\ pc' = "finally"
                       /\ UNCHANGED <<exitCode, err>>
    /\ UNCHANGED <<results, completion,
                   slice, cfg, argv, options, cliSet, timeoutFromConfig, request,
                   hashObs, prevObs, connected, completedJobs>>

\* After the completion (lines 769-854): the record is saved (a write that
\* fails is ignored), the first URL is downloaded to --output (a download
\* that fails throws) and the result is printed.
Report ==
    /\ pc = "report"
    /\ IF results = 0
       THEN Throw("no-output")
                /\ UNCHANGED <<lastRender, stdout, renderInfo, lastRenderWrites>>
       ELSE \E firstSeed \in {Undef, Num(RandomInner)},
               url \in {Undef, Str(t_last_url)},
               saved \in BOOLEAN, downloaded \in BOOLEAN :
            LET info == renderInfoOf(options, firstSeed, url)
                download == Truthy(options.output) /\ Truthy(url)
            IN /\ download \/ downloaded
               /\ renderInfo' = info
               /\ lastRender' =
                     IF saved
                     THEN [state |-> "ok", seed |-> info.seed,
                           localPath |-> info.localPath,
                           localExists |-> download /\ downloaded, url0 |-> url]
                     ELSE lastRender
               /\ lastRenderWrites' = IF saved THEN lastRenderWrites + 1
                                      ELSE lastRenderWrites
               /\ IF download /\ ~downloaded
                  THEN Throw("download") /\ UNCHANGED stdout
                  ELSE /\ stdout' =
                            IF options.json
                            THEN [kind |-> "json", success |-> TRUE,
                                  keys |-> SuccessKeys, prompt |-> options.prompt]
                            ELSE [NoOutput EXCEPT !.kind = "urls"]
                       /\ pc' = "finally"
                       /\ UNCHANGED <<exitCode, err>>
    /\ UNCHANGED <<results, completion,
                   slice, cfg, argv, options, cliSet, timeoutFromConfig, request,
                   hashObs, prevObs, connected, completedJobs>>

\* main's catch (lines 856-866): the error is printed, as an object with
\* --json, and the process leaves with code 1.
Catch ==
    /\ pc = "catch"
    /\ stdout' = IF options.json
                 THEN [kind |-> "json", success |-> FALSE, keys |-> FailureKeys,
                       prompt |-> options.prompt]
                 ELSE stdout
    /\ Exit(1, err)
    /\ UNCHANGED <<results, completion, lastRenderWrites,
                   slice, cfg, lastRender, argv, options, cliSet, timeoutFromConfig,
                   request, hashObs, prevObs, connected, completedJobs, renderInfo>>

\* main's finally (lines 868-873), reached when the try block completes: the
\* client is disconnected and the process leaves with code 0.
Finally ==
    /\ pc = "finally"
    /\ Exit(0, "done")
    /\ UNCHANGED <<results, completion, lastRenderWrites,
                   slice, cfg, lastRender, argv, options, cliSet, timeoutFromConfig,
                   request, hashObs, prevObs, connected, completedJobs, stdout,
                   renderInfo>>

\* The command is run again: a fresh process, with the same configuration
\* and the same last-render file.
NewInvocation ==
    /\ pc \in {"exit", "await"}
    /\ argv' = BaseArgv
    /\ options' = InitialOptions
    /\ cliSet' = InitialCliSet
    /\ timeoutFromConfig' = FALSE
    /\ pc' = "parse"
    /\ exitCode' = -1
    /\ err' = "none"
    /\ request' = NoRequest
    /\ prevObs' = IF hashObs.made THEN hashObs ELSE prevObs
    /\ hashObs' = NoObs
    /\ connected' = FALSE
    /\ completedJobs' = 0
    /\ stdout' = NoOutput
    /\ renderInfo' = NoRenderInfo
    /\ results' = 0
    /\ completion' = "pending"
    /\ lastRenderWrites' = 0
    /\ UNCHANGED <<slice, cfg, lastRender>>

Next ==
    \/ ParseArgs
    \/ MergeConfig
    \/ ValidateOptions
    \/ ResolveWorkflow
    \/ ResolveLastImage
    \/ SetTypeDefaults
    \/ CheckPreconditions
    \/ ValidateAssets
    \/ ValidateContextImages
    \/ LoadLastSeed
    \/ DeriveSeed
    \/ Connect
    \/ CreateProject
    \/ AwaitCompletion
    \/ JobCompleted
    \/ JobFailed
    \/ Timeout
    \/ Report
    \/ Catch
    \/ Finally

\* One run of the command, over every slice of the inputs.
Spec == Init /\ [][Next]_vars

\* The command run again and again on the inputs of the slice "hash".
InitRerun == Init /\ slice = "hash"
NextRerun == Next \/ NewInvocation
SpecRerun == InitRerun /\ [][NextRerun]_vars

(***************************************************************************)
(* Properties.  A value is given on the command line when its flag is      *)
(* followed by a non-empty word; the options are resolved once the seed    *)
(* block has run.                                                          *)
(***************************************************************************)
Given(tok) == tok.t = "str" /\ tok.s # <<>>
Finite(v) == v.t = "num"
Defined(v) == (v.t = "str" /\ v.s # <<>>) \/ (v.t = "num" /\ v.n # 0)
Resolved == pc \in {"main", "create", "submitted", "await"}
Lower(v) == Str(toLowerCase(v.s))

\* The value a numeric field resolves to by the precedence of the command
\* line, the configuration and the built-in default.
ByPrecedence(tok, cfgValue, builtin) ==
    IF tok # Absent THEN parseInt(tok)
    ELSE IF Finite(cfgValue) THEN cfgValue
    ELSE builtin

\* The fields whose precedence has the same form in the claim and in the code:
\* width, height, count, token type, seed strategy, fps, timeout, model, and
\* the workflow the user gave.
PrecedenceOfPlainFields ==
    /\ options.width = ByPrecedence(argv.width, cfg.defaultWidth, Num(512))
    /\ options.height = ByPrecedence(argv.height, cfg.defaultHeight, Num(512))
    /\ options.count = ByPrecedence(argv.count, cfg.defaultCount, Num(1))
    /\ Or(options.tokenType, Str(s_spark)) =
          IF Given(argv.tokenType) THEN Lower(argv.tokenType)
          ELSE IF argv.tokenType = Absent /\ Defined(cfg.defaultTokenType)
          THEN Lower(cfg.defaultTokenType)
          ELSE Str(s_spark)
    /\ Given(argv.seedStrategy) =>
          options.seedStrategy = normalizeSeedStrategy(argv.seedStrategy)
    /\ argv.seedStrategy = Absent /\ Defined(cfg.seedStrategy) =>
          options.seedStrategy = normalizeSeedStrategy(cfg.seedStrategy)
    /\ options.video /\ Given(argv.workflow) =>
          options.videoWorkflow = normalizeVideoWorkflow(argv.workflow)
    /\ options.video => options.fps = ByPrecedence(argv.fps, cfg.defaultFps, Num(16))
    /\ options.timeout =
          IF argv.timeout # Absent THEN Times(parseInt(argv.timeout), 1000)
          ELSE IF options.video /\ Finite(cfg.defaultVideoTimeoutSec)
          THEN Times(cfg.defaultVideoTimeoutSec, 1000)
          ELSE IF ~options.video /\ Finite(cfg.defaultImageTimeoutSec)
          THEN Times(cfg.defaultImageTimeoutSec, 1000)
          ELSE IF options.video THEN Num(300000)
          ELSE IF Len(options.contextImages) > 0 THEN Num(60000)
          ELSE Num(30000)
    /\ Given(argv.model) => options.model = argv.model
    /\ argv.model = Absent =>
          LET configured ==
                IF options.video THEN Lookup(cfg.videoModels, options.videoWorkflow.s)
                ELSE IF Len(options.contextImages) > 0 THEN cfg.defaultEditModel
                ELSE cfg.defaultImageModel
          IN Defined(configured) => options.model = configured

GivenAssets ==
    [refImage |-> Flag(argv.ref, Null, argv.ref),
     refImageEnd |-> Flag(argv.refEnd, Null, argv.refEnd),
     refAudio |-> Flag(argv.refAudio, Null, argv.refAudio),
     refVideo |-> Flag(argv.refVideo, Null, argv.refVideo)]

\* C2: in video mode the resolved workflow is the first defined of the
\* normalised --workflow flag, the workflow inferred from the model, the
\* workflow inferred from the assets, the configured default workflow (as
\* configured or normalised) and t2v.
C2_WorkflowOrder ==
    Resolved /\ options.video =>
        LET explicit == normalizeVideoWorkflow(argv.workflow)
            fromModel == inferVideoWorkflowFromModel(Flag(argv.model, Null, argv.model))
            fromAssets == inferVideoWorkflowFromAssets(GivenAssets)
            configured == cfg.defaultVideoWorkflow
        IN IF Defined(explicit) THEN options.videoWorkflow = explicit
           ELSE IF Defined(fromModel) THEN options.videoWorkflow = fromModel
           ELSE IF Defined(fromAssets) THEN options.videoWorkflow = fromAssets
           ELSE IF Defined(configured)
           THEN options.videoWorkflow \in {configured, normalizeVideoWorkflow(configured)}
           ELSE options.videoWorkflow = Str(s_t2v)

\* The requirement table of the workflows: the row of the workflow holds of
\* the assets; a workflow without a row accepts nothing.
MeetsRequirementTable(opts) ==
    LET image == Defined(opts.refImage)
        endImage == Defined(opts.refImageEnd)
        audio == Defined(opts.refAudio)
        video == Defined(opts.refVideo)
    IN CASE opts.videoWorkflow = Str(s_t2v) ->
                ~image /\ ~endImage /\ ~audio /\ ~video
         [] opts.videoWorkflow = Str(s_i2v) -> (image \/ endImage) /\ ~audio /\ ~video
         [] opts.videoWorkflow = Str(s_s2v) -> image /\ audio /\ ~video
         [] opts.videoWorkflow \in {Str(s_animate_move), Str(s_animate_replace)} ->
                image /\ video /\ ~audio
         [] OTHER -> FALSE

\* C3: in video mode a request passes the asset validation if and only if its
\* assets meet the workflow's row of the requirement table; every other
\* combination leaves with code 1 and no request.
C3_AssetTable ==
    options.video =>
        /\ pc \in {"context", "lastSeed", "seed", "main", "create", "submitted",
                  "await"} =>
              MeetsRequirementTable(options)
        /\ pc = "exit" /\ err = "asset" =>
              ~MeetsRequirementTable(options) /\ exitCode = 1 /\ request = NoRequest

\* C4: the workflow of a video request that reaches the request builder is
\* one of t2v, i2v, s2v, animate-move, animate-replace.
C4_WorkflowClosed ==
    pc \in {"create", "submitted", "await"} /\ options.video =>
        options.videoWorkflow \in {Str(w) : w \in WorkflowNames}

\* C5: in video mode an explicit workflow that differs from the workflow
\* inferred from the model ends the resolution with code 1 and no request,
\* and this failure is raised only for a workflow given with --workflow.
C5_Mismatch ==
    /\ LET explicit == normalizeVideoWorkflow(argv.workflow)
           fromModel == inferVideoWorkflowFromModel(Flag(argv.model, Null, argv.model))
       IN argv.video /\ Defined(explicit) /\ Defined(fromModel) /\ explicit # fromModel =>
             \/ pc \in {"merge", "validate", "workflow"}
             \/ pc = "exit" /\ exitCode = 1 /\ request = NoRequest
    /\ pc = "exit" /\ err = "workflow-mismatch" =>
          exitCode = 1 /\ request = NoRequest /\ Given(argv.workflow)

\* C6: the seed placed in a request is an integer in the range of the seed,
\* 0 .. MaxSeed, whatever its source.
C6_SeedRange ==
    pc = "await" => request.seed.t = "num" /\ request.seed.n \in 0..MaxSeed

\* C7: with --last-seed and a record that carries a seed, the resolved seed is
\* the record's seed, before an explicit --seed and before any derivation, for
\* every seed the record can carry, 0 included.
C7_LastSeedFirst ==
    Resolved /\ argv.lastSeed /\ lastRender.state = "ok" /\ ~Nullish(lastRender.seed) =>
        options.seed = lastRender.seed

\* The seeds generateRandomSeed can return, as JavaScript numbers.
RandomSeeds == {Num(r) : r \in generateRandomSeed}

\* C8: with --last-seed and no last-render record the resolution does not
\* fail: the block of --last-seed leaves the options as they are and goes on
\* to the seed block, which, without an explicit seed, derives the seed by
\* the resolved strategy.
C8_NoRecordFallsThrough ==
    [][argv.lastSeed /\ lastRender.state = "absent" =>
          /\ pc = "lastSeed" =>
                pc' = "seed" /\ exitCode' = -1 /\ options' = options
          /\ pc = "seed" /\ argv.seed = Absent =>
                /\ pc' = "main" /\ exitCode' = -1
                /\ Given(argv.seedStrategy) =>
                      options'.seedStrategy = normalizeSeedStrategy(argv.seedStrategy)
                /\ IF options'.seedStrategy = Str(s_random)
                   THEN options'.seed \in RandomSeeds
                   ELSE /\ options'.seedStrategy = Str(s_prompt_hash)
                        /\ options'.seed = Num(computePromptHashSeed(options))]_vars

\* A request built after --last-seed found no record: its seed is the
\* prompt-hash seed.
C8_Witness ==
    /\ pc = "await"
    /\ argv.lastSeed /\ lastRender.state = "absent" /\ argv.seed = Absent
    /\ options.seedStrategy = Str(s_prompt_hash)
    /\ request.seed = Num(computePromptHashSeed(options))

\* C9: with an explicit seed, and no seed from --last-seed, the seed of the
\* resolution and of the request is the value of --seed and no derivation by
\* strategy has run, whatever the seed strategy of the flag or of the
\* configuration.
C9_ExplicitSeedKept ==
    Resolved /\ argv.seed.t = "str"
        /\ ~(argv.lastSeed /\ lastRender.state = "ok" /\ ~Nullish(lastRender.seed)) =>
        /\ options.seed = parseInt(argv.seed)
        /\ ~hashObs.made
        /\ pc = "await" => request.seed = parseInt(argv.seed)

\* --seed 42 --seed-strategy random: the request carries the seed 42.
C9_Witness ==
    /\ pc = "await"
    /\ argv.seed = Str(t_42) /\ argv.seedStrategy = Str(s_random)
    /\ request.seed = Num(42)

\* Two resolutions agree on the fields the prompt-hash seed is a function of.
SameHashFields(a, b) ==
    /\ a.prompt = b.prompt
    /\ a.model = b.model
    /\ (IF a.video THEN a.videoWorkflow ELSE Str(s_image)) =
          (IF b.video THEN b.videoWorkflow ELSE Str(s_image))
    /\ a.width = b.width /\ a.height = b.height
    /\ a.refImage = b.refImage /\ a.refImageEnd = b.refImageEnd
    /\ a.refAudio = b.refAudio /\ a.refVideo = b.refVideo
    /\ a.contextImages = b.contextImages

\* C10: under the prompt-hash strategy two resolutions that agree on prompt,
\* resolved model, resolved workflow (or the literal image), width, height,
\* the four references and the context images produce the same seed,
\* whatever their other options.
C10_PromptHashDeterministic ==
    hashObs.made /\ prevObs.made /\ SameHashFields(hashObs.opts, prevObs.opts) =>
        hashObs.seed = prevObs.seed

\* Two runs that agree on the hashed fields and differ in count, token type,
\* fps and output path, with the same seed in both.
C10_Witness ==
    /\ pc = "await"
    /\ hashObs.made /\ prevObs.made
    /\ SameHashFields(hashObs.opts, prevObs.opts)
    /\ hashObs.opts.count # prevObs.opts.count
    /\ hashObs.opts.tokenType # prevObs.opts.tokenType
    /\ hashObs.opts.fps # prevObs.opts.fps
    /\ hashObs.opts.output # prevObs.opts.output
    /\ request.seed = Num(prevObs.seed)

\* The assets the requirement table forbids for the workflow are not among
\* the four references given.
NoForbiddenAsset(workflow, image, endImage, audio, video) ==
    CASE workflow = Str(s_t2v) ->
            ~Defined(image) /\ ~Defined(endImage) /\ ~Defined(audio) /\ ~Defined(video)
      [] workflow = Str(s_i2v) -> ~Defined(audio) /\ ~Defined(video)
      [] workflow = Str(s_s2v) -> ~Defined(video)
      [] workflow \in {Str(s_animate_move), Str(s_animate_replace)} -> ~Defined(audio)
      [] OTHER -> ~Defined(image) /\ ~Defined(endImage) /\ ~Defined(audio)
                     /\ ~Defined(video)

\* A video request and a video record carry no context images and no asset
\* the workflow forbids.
C11_VideoAssets ==
    /\ request.kind = "video" =>
          /\ request.contextImages = <<>>
          /\ NoForbiddenAsset(options.videoWorkflow, request.referenceImage,
                              request.referenceImageEnd, request.referenceAudio,
                              request.referenceVideo)
    /\ renderInfo.type = "video" =>
          /\ renderInfo.contextImages = <<>>
          /\ NoForbiddenAsset(renderInfo.workflow, renderInfo.refImage,
                              renderInfo.refImageEnd, renderInfo.refAudio,
                              renderInfo.refVideo)

\* An image or image-edit request and record carry none of the four
\* references, and the prompt-hash seed of the request is the one the same
\* options give without the reference image and the end image.
C11_ImageAssets ==
    /\ request.kind \in {"image", "edit"} =>
          /\ ~Defined(request.referenceImage) /\ ~Defined(request.referenceImageEnd)
          /\ ~Defined(request.referenceAudio) /\ ~Defined(request.referenceVideo)
          /\ hashObs.made =>
                request.seed =
                    Num(computePromptHashSeed(
                            [options EXCEPT !.refImage = Null, !.refImageEnd = Null]))
    /\ renderInfo.type = "image" =>
          /\ ~Defined(renderInfo.refImage) /\ ~Defined(renderInfo.refImageEnd)
          /\ ~Defined(renderInfo.refAudio) /\ ~Defined(renderInfo.refVideo)

\* C11: in every request handed to the client and every last-render record
\* written, an asset field is populated only if the requirement table of the
\* active workflow permits it: no context images in a video request or
\* record, no reference image or end image in, or influencing, an image or
\* image-edit request, and no forbidden asset of the workflow.
C11_NoAssetLeak == C11_VideoAssets /\ C11_ImageAssets

\* The blocks of the script up to the check of the video-only options.
BeforeVideoOnlyCheck ==
    pc \in {"merge", "validate", "workflow", "lastImage", "defaults", "precond"}

\* C12: outside video mode a command line with a video-only flag (--workflow,
\* --frames with any value, --ref-audio, --ref-video) is rejected: the process
\* leaves with code 1 and no request is built.
C12_VideoOnlyFlags ==
    ~argv.video /\ argv.info = "none"
        /\ (argv.workflow # Absent \/ argv.frames # Absent
            \/ argv.refAudio # Absent \/ argv.refVideo # Absent) =>
        \/ BeforeVideoOnlyCheck
        \/ pc = "exit" /\ exitCode = 1 /\ request = NoRequest /\ ~connected

\* The blocks of the script up to the check of the context images.
BeforeContextCheck ==
    pc \in {"parse", "merge", "validate", "workflow", "lastImage", "defaults",
            "precond", "assets", "context"}

\* The context images of the command line, with the one --last-image adds.
GivenContextImages ==
    argv.context \o
        (IF argv.lastImage /\ lastRender.state = "ok"
              /\ Truthy(lastImagePathOf(lastRender))
         THEN <<lastImagePathOf(lastRender)>> ELSE <<>>)

\* C13: outside video mode an image-edit request carries all the context
\* images given (--context and --last-image), at least 1 and at most the
\* maximum of its model; a plain image request is built only when none was
\* given; and when the model takes none, or fewer than given, the process
\* leaves with code 1 before any request.
C13_ContextLimit ==
    ~argv.video /\ argv.info = "none" =>
        /\ pc = "defaults" => options.contextImages = GivenContextImages
        /\ request.kind = "edit" =>
              /\ request.contextImages = options.contextImages
              /\ Len(request.contextImages) >= 1
              /\ Len(request.contextImages) <= getMaxContextImages(request.modelId)
        /\ request.kind = "image" => options.contextImages = <<>>
        /\ ~BeforeContextCheck /\ Len(options.contextImages) > 0
              /\ Len(options.contextImages) > getMaxContextImages(options.model) =>
              pc = "exit" /\ exitCode = 1 /\ request = NoRequest /\ ~connected

\* An image-edit request with the context image of --context and the one of
\* --last-image.
C13_Witness ==
    /\ pc = "await"
    /\ request.kind = "edit"
    /\ argv.lastImage /\ Len(argv.context) = 1
    /\ request.contextImages = <<Str(t_c_png), Str(t_last_png)>>

\* The blocks of the script and of main that run after the defaults by type.
AfterTypeDefaults ==
    pc \in {"precond", "assets", "context", "lastSeed", "seed", "main", "create",
            "submitted", "await", "report", "catch", "finally"}

\* A timeout the plugin configuration chose for the mode of the run.
ConfiguredTimeout ==
    IF argv.video THEN cfg.defaultVideoTimeoutSec ELSE cfg.defaultImageTimeoutSec

\* C14: the resolved timeout is the value of --timeout when one was given,
\* else the value the plugin configuration chose for the mode, also when
\* either is 30 seconds; only when neither chose one it is 300 seconds in
\* video mode, 60 seconds with context images and 30 seconds otherwise.
C14_TimeoutChoice ==
    AfterTypeDefaults =>
        options.timeout =
            IF argv.timeout # Absent THEN Times(parseInt(argv.timeout), 1000)
            ELSE IF Finite(ConfiguredTimeout) THEN Times(ConfiguredTimeout, 1000)
            ELSE IF argv.video THEN Num(300000)
            ELSE IF Len(options.contextImages) > 0 THEN Num(60000)
            ELSE Num(30000)

\* A video run with --timeout 30: the timeout stays 30 seconds.
C14_Witness ==
    /\ pc = "await"
    /\ request.kind = "video"
    /\ argv.timeout = Str(t_30)
    /\ options.timeout = Num(30000)

\* The model the plugin configuration names for the resolved workflow.
ConfiguredWorkflowModel ==
    IF Truthy(options.videoWorkflow)
    THEN Lookup(cfg.videoModels, options.videoWorkflow.s) ELSE Null

\* C15 as stated: the model of a request is the non-empty --model value; for
\* a video without one it is the entry of the workflow-default table, else
\* the model configured for the workflow, else the hardcoded default.
C15_TableBeforeConfig ==
    request.kind # "none" =>
        /\ Given(argv.model) => request.modelId = argv.model
        /\ (argv.model = Absent /\ request.kind = "video") =>
              request.modelId =
                  Or(Or(VIDEO_WORKFLOW_DEFAULT_MODELS(options.videoWorkflow),
                        ConfiguredWorkflowModel),
                     Str(m_i2v_lightx2v))

\* C15: the model of a request is the non-empty --model value; for a video
\* without one it is the model the plugin configuration names for the
\* resolved workflow, else the entry of the workflow-default table, else the
\* hardcoded default.
C15_ConfigBeforeTable ==
    request.kind # "none" =>
        /\ Given(argv.model) => request.modelId = argv.model
        /\ (argv.model = Absent /\ request.kind = "video") =>
              request.modelId =
                  Or(Or(ConfiguredWorkflowModel,
                        VIDEO_WORKFLOW_DEFAULT_MODELS(options.videoWorkflow)),
                     Str(m_i2v_lightx2v))

\* A video request without --model whose workflow has a configured model that
\* differs from the entry of the table: the configured model is requested.
C15_Witness ==
    /\ pc = "await"
    /\ request.kind = "video"
    /\ argv.model = Absent
    /\ Truthy(ConfiguredWorkflowModel)
    /\ Truthy(VIDEO_WORKFLOW_DEFAULT_MODELS(options.videoWorkflow))
    /\ ConfiguredWorkflowModel # VIDEO_WORKFLOW_DEFAULT_MODELS(options.videoWorkflow)
    /\ request.modelId = ConfiguredWorkflowModel

\* The per-model override of the plugin configuration for the request's model.
OverrideOfModel == getModelDefaults(request.modelId, cfg)

\* The hardcoded steps and guidance (in tenths) of a request shape; the plain
\* image has no hardcoded steps and the video neither of the two.
HardcodedSteps ==
    IF request.kind = "edit"
    THEN (IF includes(request.modelId.s, s_lightning) THEN Num(4) ELSE Num(20))
    ELSE Undef
HardcodedGuidance ==
    CASE request.kind = "edit" ->
            (IF includes(request.modelId.s, s_lightning) THEN Num(35) ELSE Num(75))
      [] request.kind = "image" -> Num(10)
      [] OTHER -> Undef

\* C16: in each request shape the steps and the guidance of the request are
\* the finite value of --steps / --guidance when one was given, 0 included,
\* else the override of the plugin configuration for the resolved model, else
\* the hardcoded default of the shape.
C16_StepsAndGuidance ==
    request.kind # "none" =>
        /\ request.steps =
              IF Finite(parseInt(argv.steps)) THEN parseInt(argv.steps)
              ELSE Coalesce(OverrideOfModel.steps, HardcodedSteps)
        /\ request.guidance =
              IF Finite(parseFloat(argv.guidance)) THEN parseFloat(argv.guidance)
              ELSE Coalesce(OverrideOfModel.guidance, HardcodedGuidance)

\* The checks of the configuration, the workflow, the assets and the
\* preconditions, by the reason they end the process with.
ValidationErrors ==
    {"token-type", "seed-strategy", "steps", "guidance", "unknown-workflow",
     "workflow-mismatch", "asset", "context", "no-prompt", "video-only"}

\* C17: when a check of the configuration, the workflow, the assets or the
\* preconditions fails, the process has ended with code 1, no connection of
\* the client was attempted and no project configuration was built.
C17_ValidationBeforeNetwork ==
    err \in ValidationErrors =>
        /\ pc = "exit"
        /\ exitCode = 1
        /\ ~connected
        /\ request = NoRequest
        /\ completedJobs = 0

\* A video whose workflow lacks a required asset, or has a forbidden one.
C17_Witness ==
    /\ pc = "exit"
    /\ err = "asset"
    /\ argv.video
    /\ assetError(options)
    /\ exitCode = 1
    /\ ~connected

\* The run printed the result of a generation: the URLs, or the object with
\* success true.
PrintedResult ==
    stdout.kind = "urls" \/ (stdout.kind = "json" /\ stdout.success)

\* No completed job reported a URL: the list of the URLs is empty.
NoOutputGenerated == renderInfo.type # "none" /\ ~Truthy(renderInfo.url0)

\* C18: the process ends with code 0 exactly when the generation succeeded,
\* with an output, or --help or --last ran, and with code 1 otherwise, also
\* when the connection, the fetch of an asset or a job failed, the time ran
\* out or no output was generated; a run that passed through main's catch
\* ends with code 1.
C18_ExitCode ==
    pc = "exit" =>
        /\ exitCode \in {0, 1}
        /\ exitCode = 0 <=>
              ((PrintedResult /\ ~NoOutputGenerated) \/ argv.info # "none")
        /\ err \in {"connect", "fetch", "create", "job-failed", "timeout",
                    "no-output", "download"} => exitCode = 1

\* C19: with --json a process that ends with code 1, after a check of the
\* resolution failed or after an error of the generation, has printed an
\* object with success false, an errorCode, a hint and the prompt.
C19_JsonFailure ==
    (pc = "exit" /\ exitCode = 1 /\ argv.json) =>
        /\ stdout.kind = "json"
        /\ ~stdout.success
        /\ {"success", "errorCode", "hint", "prompt"} \subseteq stdout.keys
        /\ stdout.prompt = Flag(argv.prompt, Null, argv.prompt)

\* C20: a run that reads the last-render file with --last-image, --last-seed
\* or --last and finds it missing or not parseable is never aborted by the
\* read: it goes on with no context image, reference or seed taken from the
\* file, and --last ends with code 0.
C20_LastRenderReadsRecover ==
    (/\ pc # "parse"
     /\ lastRender.state \in {"absent", "corrupt"}
     /\ argv.lastImage \/ argv.lastSeed \/ argv.info = "last") =>
        /\ err # "uncaught"
        /\ argv.info = "last" => pc = "exit" /\ exitCode = 0
        /\ (argv.info = "none" /\ AfterTypeDefaults) =>
              /\ options.contextImages = argv.context
              /\ options.refImage = Flag(argv.ref, Null, argv.ref)
        /\ (argv.info = "none" /\ argv.seed = Absent /\ pc = "seed") =>
              Nullish(options.seed)

\* The file a successful saveLastRender leaves for the record it was handed.
FileOf(info) ==
    [state |-> "ok", seed |-> info.seed, localPath |-> info.localPath,
     localExists |-> lastRender.localExists, url0 |-> info.url0]

\* C21: a run writes the last-render file at most once, after the jobs have
\* completed; the file then holds the record of the request just completed,
\* with its model, seed, output path and first URL; and a run that handed
\* the record to saveLastRender ends with its result printed and code 0
\* whether the write succeeded or not, unless the download of the output
\* failed.
C21_LastRenderWrite ==
    /\ lastRenderWrites \in {0, 1}
    /\ lastRenderWrites = 1 =>
          /\ renderInfo.type # "none"
          /\ completion = "resolved"
          /\ lastRender = FileOf(renderInfo)
          /\ renderInfo.model = request.modelId
          /\ renderInfo.type = (IF request.kind = "video" THEN "video" ELSE "image")
          /\ renderInfo.seed \in {Num(RandomInner), options.seed}
    /\ (pc = "exit" /\ renderInfo.type # "none" /\ err # "download") =>
          /\ exitCode = 0
          /\ PrintedResult
    /\ (pc = "exit" /\ PrintedResult) => renderInfo.type # "none"

\* A generation succeeded and the file holds its record.
C21_Witness ==
    /\ pc = "exit"
    /\ exitCode = 0
    /\ PrintedResult
    /\ lastRenderWrites = 1
    /\ lastRender = FileOf(renderInfo)
    /\ lastRender.url0 = Str(t_last_url)

\* C22: a video run with --last-image whose last-render file names a local
\* image or a URL requests the video with that image for its reference
\* image, or with the value of --ref when one was given.
C22_LastImageIsReference ==
    (/\ pc \in {"submitted", "await"}
     /\ argv.video
     /\ argv.lastImage
     /\ lastRender.state = "ok"
     /\ Truthy(lastImagePathOf(lastRender))) =>
        /\ request.kind = "video"
        /\ request.referenceImage =
              IF Given(argv.ref) THEN argv.ref ELSE lastImagePathOf(lastRender)

\* The blocks of the script that resolve and check the workflow and the
\* assets.
ResolutionPipeline ==
    pc \in {"workflow", "lastImage", "defaults", "precond", "assets", "context"}
        \/ err \in ValidationErrors

\* C23: a run with --balance needs no prompt: it ends with code 0, with
\* --json it prints an object with success true, and it runs none of the
\* checks of the workflow and the assets.
C23_BalanceIsInformational ==
    argv.other = Str(t_balance) =>
        /\ ~ResolutionPipeline
        /\ pc = "exit" =>
              /\ exitCode = 0
              /\ argv.json => stdout.kind = "json" /\ stdout.success

\* A dimension that is a number and a multiple of 16.
MultipleOf16(v) == v.t = "num" /\ v.n % 16 = 0

\* C24: the width and the height of a video request, and those a video run
\* prints with --json, are multiples of 16.
C24_VideoDimensions ==
    /\ request.kind = "video" =>
          MultipleOf16(request.width) /\ MultipleOf16(request.height)
    /\ (options.video /\ stdout.kind = "json" /\ stdout.success) =>
          MultipleOf16(options.width) /\ MultipleOf16(options.height)

\* C25: the completions counted equal the results recorded; a result is
\* printed only after as many JOB_COMPLETED events as options.count were
\* handled; and the handler takes the events from the moment the project is
\* handed to the client, before main awaits the completion.
C25_CompletionsCounted ==
    /\ completedJobs = results
    /\ (PrintedResult \/ pc \in {"report", "finally"}) =>
          /\ options.count.t = "num"
          /\ completedJobs >= options.count.n
          /\ completedJobs >= 1
          /\ completion = "resolved"
    /\ (pc = "submitted" /\ completion = "pending" /\ completedJobs < MaxJobs) =>
          ENABLED JobCompleted

\* Two images were asked for and the result was printed after two
\* completions.
C25_Witness ==
    /\ pc = "exit"
    /\ exitCode = 0
    /\ PrintedResult
    /\ options.count = Num(2)
    /\ completedJobs = 2
    /\ results = 2

\* The completion promise rejected: the timer fired or a job failed.
CompletionRejected == completion \in {"timeout", "job-failed"}

\* C26: a run whose timer fired or whose job failed, at any point after the
\* timer and the listeners were set up, the fetch of the assets and the
\* creation of the project included, ends with code 1 through main's catch,
\* with the failure object printed under --json, and prints no result.
C26_RejectionPath ==
    CompletionRejected =>
        /\ ~PrintedResult
        /\ pc \notin {"report", "finally"}
        /\ pc = "exit" =>
              /\ exitCode = 1
              /\ err \in {"timeout", "job-failed", "fetch", "create"}
              /\ options.json =>
                    /\ stdout.kind = "json"
                    /\ ~stdout.success
                    /\ stdout.keys = FailureKeys

\* C27: a run that ends with code 1, after a failed check, a failed job, a
\* timeout or a failed download of the output, has not written the
\* last-render file; the file is written only by runs that end with code 0.
C27_FailedRunsLeaveRecord ==
    /\ (pc = "exit" /\ exitCode = 1) => lastRenderWrites = 0
    /\ (pc = "exit" /\ lastRenderWrites > 0) => exitCode = 0

\* C28: the model of a video request agrees with the resolved workflow: the
\* workflow inferred from the model is none or the resolved one.
C28_ModelMatchesWorkflow ==
    request.kind = "video" =>
        LET fromModel == inferVideoWorkflowFromModel(request.modelId)
        IN ~Truthy(fromModel) \/ fromModel = options.videoWorkflow

\* C29: a printed result and a written last-render file carry at least one
\* URL; a run whose completed jobs reported no URL ends with the error that
\* no output was generated, and code 1.
C29_OutputHasUrl ==
    /\ PrintedResult => Truthy(renderInfo.url0)
    /\ lastRenderWrites > 0 => Truthy(lastRender.url0)
    /\ (pc = "exit" /\ NoOutputGenerated) => err = "no-output" /\ exitCode = 1
====
